---- MODULE Spec2Model ----
(***************************************************************************)
(* Model of the circuit-breaker transport of go-autumn-web                 *)
(* (package resiliency).  CircuitBreakerTransport.RoundTrip hands the base *)
(* RoundTrip to gobreaker/v2's CircuitBreaker.Execute; the gate below is   *)
(* that breaker as the transport constructs and drives it:                 *)
(*   Execute = beforeRequest (under the mutex) ; req() ; afterRequest      *)
(*   (under the mutex), with the mutex free while req() runs.              *)
(* Time is an integer clock; the zero time.Time is 0 and the clock starts  *)
(* at 1.                                                                   *)
(*                                                                         *)
(* Further sections model the authorization, CORS, panic-recovery and      *)
(* request-ID middlewares and the MockInteractionTransport of testutils,   *)
(* each under a specification of its own (AuthSpec, CORSSpec,              *)
(* RecoverySpec, RequestIDSpec, MockSpec) in which the other components    *)
(* are not constructed.  LiveSpec runs the breaker without end, under      *)
(* fairness; MockConcSpec runs the MockInteractionTransport from several   *)
(* goroutines.                                                             *)
(***************************************************************************)
EXTENDS Integers, FiniteSets, Sequences, TLC

\* ---------------------------------------------------------------- bounds
NumCallers == 2          \* concurrent callers of RoundTrip
MaxCalls == 6            \* RoundTrip calls in one behaviour
MaxTime == 4             \* last instant of the clock

\* ------------------------------------------------------ program constants
DefaultMaxRequests == 5  \* DefaultCircuitBreakerTransportOptions: MaxRequests
DefaultInterval == 60    \* DefaultCircuitBreakerTransportOptions: Interval (s)
DefaultTimeout == 60     \* DefaultCircuitBreakerTransportOptions: Timeout (s)
DefaultMinRequests == 5  \* default ReadyToTrip: counts.Requests >= 5
RatioNum == 6            \* default ReadyToTrip: failureRatio >= 0.6 = 6/10
RatioDen == 10
LibraryDefaultTimeout == 60 \* the breaker's Timeout when Settings.Timeout <= 0 (s)

Callers == 1..NumCallers

StateClosed == "closed"
StateHalfOpen == "half-open"
StateOpen == "open"

ErrOpenState == "circuit breaker is open"
ErrTooManyRequests == "too many requests"
NoError == "nil"
NetworkError == "network error"
NoResponse == "nil"
StatusOK == "200 OK"                        \* MockRoundTripper default response
StatusServerError == "500 Internal Server Error"

\* gobreaker.Counts and its methods
ZeroCounts ==
  [Requests |-> 0, TotalSuccesses |-> 0, TotalFailures |-> 0,
   ConsecutiveSuccesses |-> 0, ConsecutiveFailures |-> 0]

CountsOnRequest(k) == [k EXCEPT !.Requests = @ + 1]

\* onSuccess of the counts that leaves the run of failures standing
CountsOnSuccess_KeepsFailures(k) ==
  [k EXCEPT !.TotalSuccesses = @ + 1, !.ConsecutiveSuccesses = @ + 1]

CountsOnSuccess(k) ==
  [k EXCEPT !.TotalSuccesses = @ + 1, !.ConsecutiveSuccesses = @ + 1,
            !.ConsecutiveFailures = 0]

CountsOnFailure(k) ==
  [k EXCEPT !.TotalFailures = @ + 1, !.ConsecutiveFailures = @ + 1,
            !.ConsecutiveSuccesses = 0]

\* ----------------------------------------------------------- trip policies
\* the default ReadyToTrip without its minimum of five requests
DefaultReadyToTrip_NoMinimum(k) ==
  RatioDen * k.TotalFailures >= RatioNum * k.Requests

\* ReadyToTrip of DefaultCircuitBreakerTransportOptions:
\*   failureRatio := float64(TotalFailures) / float64(Requests)
\*   Requests >= 5 && failureRatio >= 0.6
\* (for Requests = 0 the quotient is NaN and every comparison is false).
DefaultReadyToTrip(k) ==
  /\ k.Requests >= DefaultMinRequests
  /\ RatioDen * k.TotalFailures >= RatioNum * k.Requests

\* ReadyToTrip of the tests: TotalFailures >= 2, TotalFailures >= 1
TripAfterTwoFailures(k) == k.TotalFailures >= 2
TripAfterOneFailure(k) == k.TotalFailures >= 1

\* Settings.ReadyToTrip left nil: the breaker's own default
LibraryReadyToTrip(k) == k.ConsecutiveFailures > 5

ReadyToTrip(policy, k) ==
  CASE policy = "ratio" -> DefaultReadyToTrip(k)
    [] policy = "failures2" -> TripAfterTwoFailures(k)
    [] policy = "failures1" -> TripAfterOneFailure(k)
    [] OTHER -> LibraryReadyToTrip(k)

\* --------------------------------------------------------------- options
DefaultCircuitBreakerTransportOptions ==
  [MaxRequests |-> DefaultMaxRequests, Interval |-> DefaultInterval,
   Timeout |-> DefaultTimeout, ReadyToTrip |-> "ratio"]

\* The options handed to NewCircuitBreakerTransport: nil, or Settings
\* (a nil ReadyToTrip is "nil").
NilOptions ==
  [isNil |-> TRUE, MaxRequests |-> 0, Interval |-> 0, Timeout |-> 0,
   ReadyToTrip |-> "nil"]

CustomOptions(m, i, t, p) ==
  [isNil |-> FALSE, MaxRequests |-> m, Interval |-> i, Timeout |-> t,
   ReadyToTrip |-> p]

OptionsInputs ==
  { NilOptions,
    CustomOptions(1, 2, 2, "failures2"),
    CustomOptions(1, 1, 2, "failures1"),
    CustomOptions(2, 0, 1, "failures1"),
    CustomOptions(0, 0, 0, "nil") }

\* NewCircuitBreakerTransport: nil options become the defaults; the breaker's
\* constructor then replaces MaxRequests 0 by 1, a non-positive Interval by 0,
\* a non-positive Timeout by 60 s and a nil ReadyToTrip by its own default.
Settings(o) == IF o.isNil THEN DefaultCircuitBreakerTransportOptions ELSE o

NewSettings(o) ==
  LET s == Settings(o) IN
  [maxRequests |-> IF s.MaxRequests = 0 THEN 1 ELSE s.MaxRequests,
   interval |-> IF s.Interval <= 0 THEN 0 ELSE s.Interval,
   timeout |-> IF s.Timeout <= 0 THEN LibraryDefaultTimeout ELSE s.Timeout,
   readyToTrip |-> s.ReadyToTrip]

VARIABLES
  opts,       \* the breaker's settings, fixed by NewCircuitBreakerTransport
  cb,         \* the breaker: state, generation, counts, expiry
  now,        \* the clock
  call,       \* per caller: where its RoundTrip stands and what it saw
  callCount,  \* MockRoundTripper.callCount (the tests' base RoundTripper)
  nCalls,     \* RoundTrip calls begun
  nAdmitted,  \* RoundTrip calls that beforeRequest let through
  nInvoked,   \* invocations of the base RoundTrip
  auth,       \* the authorization middleware: its options and last exchange
  cors,       \* the CORS middleware: its options and last response
  recovery,   \* the panic-recovery middleware: its options and last exchange
  mock,       \* the MockInteractionTransport and the test that drives it
  rid         \* the request-ID middleware: its options and last exchange

cbVars == <<opts, cb, now, call, callCount, nCalls, nAdmitted, nInvoked>>
mwVars == <<auth, cors, recovery, mock, rid>>
vars == <<cbVars, mwVars>>

\* a component the behaviour at hand never constructs
NotConstructed == "not constructed"

NoMiddleware ==
  /\ auth = NotConstructed
  /\ cors = NotConstructed
  /\ recovery = NotConstructed
  /\ mock = NotConstructed
  /\ rid = NotConstructed

NoCircuitBreaker ==
  /\ opts = NotConstructed
  /\ cb = NotConstructed
  /\ now = NotConstructed
  /\ call = NotConstructed
  /\ callCount = NotConstructed
  /\ nCalls = NotConstructed
  /\ nAdmitted = NotConstructed
  /\ nInvoked = NotConstructed

\* ------------------------------------------------------- breaker internals
\* toNewGeneration that forgets to clear the counts
ToNewGeneration_KeepsCounts(g, t) ==
  [g EXCEPT !.generation = @ + 1,
            !.expiry = CASE g.state = StateClosed ->
                              IF opts.interval = 0 THEN 0 ELSE t + opts.interval
                         [] g.state = StateOpen -> t + opts.timeout
                         [] OTHER -> 0]

\* toNewGeneration: generation++, counts cleared, expiry by state
ToNewGeneration(g, t) ==
  [g EXCEPT !.generation = @ + 1,
            !.counts = ZeroCounts,
            !.expiry = CASE g.state = StateClosed ->
                              IF opts.interval = 0 THEN 0 ELSE t + opts.interval
                         [] g.state = StateOpen -> t + opts.timeout
                         [] OTHER -> 0]

\* setState: no-op when the state is unchanged, else new state, new generation
SetState(g, s, t) ==
  IF g.state = s THEN g ELSE ToNewGeneration([g EXCEPT !.state = s], t)

\* currentState with the expiry taken as reached at now = expiry
CurrentState_ExpiryInclusive(g, t) ==
  CASE g.state = StateClosed ->
         IF g.expiry # 0 /\ g.expiry <= t
         THEN [g EXCEPT !.generation = @ + 1, !.counts = ZeroCounts,
                        !.expiry = t + opts.interval]
         ELSE g
    [] g.state = StateOpen ->
         IF g.expiry <= t
         THEN [g EXCEPT !.state = StateHalfOpen, !.generation = @ + 1,
                        !.counts = ZeroCounts, !.expiry = 0]
         ELSE g
    [] OTHER -> g

\* currentState that closes an open breaker when its timeout has passed
CurrentState_OpenToClosed(g, t) ==
  CASE g.state = StateClosed ->
         IF g.expiry # 0 /\ g.expiry < t THEN ToNewGeneration(g, t) ELSE g
    [] g.state = StateOpen ->
         IF g.expiry < t THEN SetState(g, StateClosed, t) ELSE g
    [] OTHER -> g

\* currentState that never starts a new generation of the closed state
CurrentState_NoRollover(g, t) ==
  CASE g.state = StateClosed -> g
    [] g.state = StateOpen ->
         IF g.expiry < t THEN SetState(g, StateHalfOpen, t) ELSE g
    [] OTHER -> g

\* currentState: the lazy, time-driven part (expiry.Before(now) is strict)
CurrentState(g, t) ==
  CASE g.state = StateClosed ->
         IF g.expiry # 0 /\ g.expiry < t THEN ToNewGeneration(g, t) ELSE g
    [] g.state = StateOpen ->
         IF g.expiry < t THEN SetState(g, StateHalfOpen, t) ELSE g
    [] OTHER -> g

\* onSuccess that closes the half-open breaker on the first success
OnSuccess_ClosesOnFirst(g, t) ==
  CASE g.state = StateClosed -> [g EXCEPT !.counts = CountsOnSuccess(@)]
    [] g.state = StateHalfOpen ->
         SetState([g EXCEPT !.counts = CountsOnSuccess(@)], StateClosed, t)
    [] OTHER -> g

\* onSuccess that asks ReadyToTrip after counting, as onFailure does
OnSuccess_AsksReadyToTrip(g, t) ==
  CASE g.state = StateClosed ->
         LET h == [g EXCEPT !.counts = CountsOnSuccess(@)] IN
         IF ReadyToTrip(opts.readyToTrip, h.counts)
         THEN SetState(h, StateOpen, t) ELSE h
    [] g.state = StateHalfOpen ->
         LET h == [g EXCEPT !.counts = CountsOnSuccess(@)] IN
         IF h.counts.ConsecutiveSuccesses >= opts.maxRequests
         THEN SetState(h, StateClosed, t) ELSE h
    [] OTHER -> g

\* onSuccess that counts a successful probe and never closes the breaker
OnSuccess_HalfOpenStays(g, t) ==
  IF g.state \in {StateClosed, StateHalfOpen}
  THEN [g EXCEPT !.counts = CountsOnSuccess(@)]
  ELSE g

\* onSuccess(state, now)
OnSuccess(g, t) ==
  CASE g.state = StateClosed -> [g EXCEPT !.counts = CountsOnSuccess(@)]
    [] g.state = StateHalfOpen ->
         LET h == [g EXCEPT !.counts = CountsOnSuccess(@)] IN
         IF h.counts.ConsecutiveSuccesses >= opts.maxRequests
         THEN SetState(h, StateClosed, t) ELSE h
    [] OTHER -> g

\* onFailure that counts in the closed state without asking ReadyToTrip
OnFailure_NeverTrips(g, t) ==
  CASE g.state = StateClosed -> [g EXCEPT !.counts = CountsOnFailure(@)]
    [] g.state = StateHalfOpen -> SetState(g, StateOpen, t)
    [] OTHER -> g

\* onFailure that only counts a failed probe and stays half-open
OnFailure_HalfOpenStays(g, t) ==
  CASE g.state = StateClosed ->
         LET h == [g EXCEPT !.counts = CountsOnFailure(@)] IN
         IF ReadyToTrip(opts.readyToTrip, h.counts)
         THEN SetState(h, StateOpen, t) ELSE h
    [] g.state = StateHalfOpen -> [g EXCEPT !.counts = CountsOnFailure(@)]
    [] OTHER -> g

\* onFailure(state, now)
OnFailure(g, t) ==
  CASE g.state = StateClosed ->
         LET h == [g EXCEPT !.counts = CountsOnFailure(@)] IN
         IF ReadyToTrip(opts.readyToTrip, h.counts)
         THEN SetState(h, StateOpen, t) ELSE h
    [] g.state = StateHalfOpen -> SetState(g, StateOpen, t)
    [] OTHER -> g

\* an IsSuccessful that also looks at the status of the response
IsSuccessful_ChecksStatus(o) == o.err = NoError /\ o.resp # StatusServerError

\* defaultIsSuccessful: err == nil
IsSuccessful(o) == o.err = NoError

\* afterRequest without the generation check
AfterRequestGate_NoGenerationCheck(g, before, success, t) ==
  LET h == CurrentState(g, t) IN
  IF success THEN OnSuccess(h, t) ELSE OnFailure(h, t)

\* afterRequest that drops only outcomes of a later generation than its own
AfterRequestGate_CountsLate(g, before, success, t) ==
  LET h == CurrentState(g, t) IN
  IF h.generation < before THEN h
  ELSE IF success THEN OnSuccess(h, t) ELSE OnFailure(h, t)

\* afterRequest(before, success): outcomes of another generation are dropped
AfterRequestGate(g, before, success, t) ==
  LET h == CurrentState(g, t) IN
  IF h.generation # before THEN h
  ELSE IF success THEN OnSuccess(h, t) ELSE OnFailure(h, t)

\* beforeRequest that lets calls through an open breaker
BeforeRequestError_IgnoresOpen(g, t) ==
  LET h == CurrentState(g, t) IN
  IF h.state = StateHalfOpen /\ h.counts.Requests >= opts.maxRequests
  THEN ErrTooManyRequests
  ELSE NoError

\* beforeRequest without the half-open budget
BeforeRequestError_NoBudget(g, t) ==
  IF CurrentState(g, t).state = StateOpen THEN ErrOpenState ELSE NoError

\* beforeRequest with one error for both refusals
BeforeRequestError_OneError(g, t) ==
  LET h == CurrentState(g, t) IN
  IF h.state = StateOpen THEN ErrOpenState
  ELSE IF h.state = StateHalfOpen /\ h.counts.Requests >= opts.maxRequests
       THEN ErrOpenState
       ELSE NoError

\* beforeRequest: the error it returns ("nil" when the call is let through)
BeforeRequestError(g, t) ==
  LET h == CurrentState(g, t) IN
  IF h.state = StateOpen THEN ErrOpenState
  ELSE IF h.state = StateHalfOpen /\ h.counts.Requests >= opts.maxRequests
       THEN ErrTooManyRequests
       ELSE NoError

\* beforeRequest that counts the request before it decides
BeforeRequestGate_CountsRefused(g, t) ==
  [CurrentState(g, t) EXCEPT !.counts = CountsOnRequest(@)]

\* beforeRequest that lets the call through without counting it
BeforeRequestGate_CountsNothing(g, t) == CurrentState(g, t)

\* beforeRequest: the breaker it leaves behind
BeforeRequestGate(g, t) ==
  LET h == CurrentState(g, t) IN
  IF BeforeRequestError(g, t) # NoError THEN h
  ELSE [h EXCEPT !.counts = CountsOnRequest(@)]

\* ------------------------------------------------------------- the callers
\* What the base RoundTrip can produce: a response and nil error (any status),
\* or no response and an error; or it panics.
Outcomes ==
  { [resp |-> StatusOK, err |-> NoError, panic |-> FALSE],
    [resp |-> StatusServerError, err |-> NoError, panic |-> FALSE],
    [resp |-> NoResponse, err |-> NetworkError, panic |-> FALSE],
    [resp |-> NoResponse, err |-> NoError, panic |-> TRUE] }

NoOutcome == [resp |-> NoResponse, err |-> NoError, panic |-> FALSE]

IdleCall ==
  [pc |-> "idle", gen |-> 0, at |-> StateClosed, out |-> NoOutcome,
   ret |-> NoOutcome, stale |-> FALSE, seen |-> 0]

\* Execute that turns a 5xx response into an error of its own
ExecuteReturn_RewritesServerErrors(o) ==
  IF o.resp = StatusServerError
  THEN [resp |-> NoResponse, err |-> ErrOpenState, panic |-> FALSE]
  ELSE o

\* What Execute returns for an admitted call: req()'s result and error
ExecuteReturn(o) == o

\* What Execute returns for a refused call: the zero response and the error
ExecuteRefusal(e) == [resp |-> NoResponse, err |-> e, panic |-> FALSE]

Init ==
  /\ \E o \in OptionsInputs : opts = NewSettings(o)
  /\ now = 1
  /\ cb = ToNewGeneration([state |-> StateClosed, generation |-> 0,
                           counts |-> ZeroCounts, expiry |-> 0], now)
  /\ call = [c \in Callers |-> IdleCall]
  /\ callCount = 0
  /\ nCalls = 0
  /\ nAdmitted = 0
  /\ nInvoked = 0
  /\ NoMiddleware

\* an Execute that holds its lock while req() runs: nobody else gets in
BeforeRequest_HoldsLock(c) ==
  /\ call[c].pc \in {"idle", "done", "rejected", "panicked"}
  /\ \A d \in Callers : call[d].pc \notin {"admitted", "entered", "running"}
  /\ nCalls < MaxCalls
  /\ nCalls' = nCalls + 1
  /\ nAdmitted' = IF BeforeRequestError(cb, now) = NoError
                   THEN nAdmitted + 1 ELSE nAdmitted
  /\ cb' = BeforeRequestGate(cb, now)
  /\ LET e == BeforeRequestError(cb, now)
         h == CurrentState(cb, now) IN
     call' = [call EXCEPT ![c] =
                [pc |-> IF e = NoError THEN "admitted" ELSE "rejected",
                 gen |-> h.generation, at |-> h.state, out |-> NoOutcome,
                 ret |-> IF e = NoError THEN NoOutcome ELSE ExecuteRefusal(e),
                 stale |-> FALSE, seen |-> 0]]
  /\ UNCHANGED <<opts, now, callCount, nInvoked>>
  /\ UNCHANGED mwVars

\* RoundTrip is entered and Execute runs beforeRequest
BeforeRequest(c) ==
  /\ call[c].pc \in {"idle", "done", "rejected", "panicked"}
  /\ nCalls < MaxCalls
  /\ nCalls' = nCalls + 1
  /\ nAdmitted' = IF BeforeRequestError(cb, now) = NoError
                   THEN nAdmitted + 1 ELSE nAdmitted
  /\ cb' = BeforeRequestGate(cb, now)
  /\ LET e == BeforeRequestError(cb, now)
         h == CurrentState(cb, now) IN
     call' = [call EXCEPT ![c] =
                [pc |-> IF e = NoError THEN "admitted" ELSE "rejected",
                 gen |-> h.generation, at |-> h.state, out |-> NoOutcome,
                 ret |-> IF e = NoError THEN NoOutcome ELSE ExecuteRefusal(e),
                 stale |-> FALSE, seen |-> 0]]
  /\ UNCHANGED <<opts, now, callCount, nInvoked>>
  /\ UNCHANGED mwVars

\* req() is called: the base RoundTrip (the tests' MockRoundTripper) is
\* entered and reads m.callCount for m.callCount++; the field is shared by
\* the callers without synchronisation, so the read and the write are two
\* steps
OperationStart(c) ==
  /\ call[c].pc = "admitted"
  /\ call' = [call EXCEPT ![c].pc = "entered", ![c].seen = callCount]
  /\ nInvoked' = nInvoked + 1
  /\ UNCHANGED <<opts, cb, now, callCount, nCalls, nAdmitted>>
  /\ UNCHANGED mwVars

\* MockRoundTripper.RoundTrip: the write of m.callCount++
CallCountStore(c) ==
  /\ call[c].pc = "entered"
  /\ call' = [call EXCEPT ![c].pc = "running", ![c].seen = 0]
  /\ callCount' = call[c].seen + 1
  /\ UNCHANGED <<opts, cb, now, nCalls, nAdmitted, nInvoked>>
  /\ UNCHANGED mwVars

\* MockRoundTripper.Reset: m.callCount = 0
MockRoundTripperReset ==
  /\ callCount' = 0
  /\ UNCHANGED <<opts, cb, now, call, nCalls, nAdmitted, nInvoked>>
  /\ UNCHANGED mwVars

\* Execute that calls req() again when it returned an error
AfterRequest_RetriesOnError(c, o) ==
  /\ call[c].pc = "running"
  /\ IF o.err # NoError
     THEN /\ call' = [call EXCEPT ![c].pc = "admitted"]
          /\ cb' = cb
     ELSE /\ cb' = AfterRequestGate(cb, call[c].gen, ~o.panic, now)
          /\ call' = [call EXCEPT ![c].pc = IF o.panic THEN "panicked" ELSE "done",
                                  ![c].out = o,
                                  ![c].ret = IF o.panic THEN NoOutcome ELSE o,
                                  ![c].stale =
                                    (CurrentState(cb, now).generation # call[c].gen)]
  /\ UNCHANGED <<opts, now, callCount, nCalls, nAdmitted, nInvoked>>
  /\ UNCHANGED mwVars

\* the base RoundTrip returns o (or panics); Execute runs afterRequest and
\* returns (or re-panics)
AfterRequest(c, o) ==
  /\ call[c].pc = "running"
  /\ cb' = AfterRequestGate(cb, call[c].gen, IsSuccessful(o) /\ ~o.panic, now)
  /\ call' = [call EXCEPT ![c].pc = IF o.panic THEN "panicked" ELSE "done",
                          ![c].out = o,
                          ![c].ret = IF o.panic THEN NoOutcome ELSE ExecuteReturn(o),
                          ![c].stale = (CurrentState(cb, now).generation # call[c].gen)]
  /\ UNCHANGED <<opts, now, callCount, nCalls, nAdmitted, nInvoked>>
  /\ UNCHANGED mwVars

\* a clock with a timer that applies the expiry as time passes
Tick_AppliesExpiry ==
  /\ now < MaxTime
  /\ now' = now + 1
  /\ cb' = CurrentState(cb, now + 1)
  /\ UNCHANGED <<opts, call, callCount, nCalls, nAdmitted, nInvoked>>
  /\ UNCHANGED mwVars

\* time passes
Tick ==
  /\ now < MaxTime
  /\ now' = now + 1
  /\ UNCHANGED <<opts, cb, call, callCount, nCalls, nAdmitted, nInvoked>>
  /\ UNCHANGED mwVars

Next ==
  \/ \E c \in Callers : BeforeRequest(c)
  \/ \E c \in Callers : OperationStart(c)
  \/ \E c \in Callers : CallCountStore(c)
  \/ \E c \in Callers, o \in Outcomes : AfterRequest(c, o)
  \/ MockRoundTripperReset
  \/ Tick

Spec == Init /\ [][Next]_vars

TypeOK ==
  /\ cb.state \in {StateClosed, StateHalfOpen, StateOpen}
  /\ cb.generation \in Nat
  /\ now \in 1..MaxTime
  /\ callCount \in 0..MaxCalls
  /\ nCalls \in 0..MaxCalls
  /\ nAdmitted \in 0..nCalls
  /\ nInvoked \in 0..nAdmitted

\* ------------------------------------------------- steps, seen from outside
\* caller c's RoundTrip went through beforeRequest in this step
Decides(c) ==
  /\ nCalls' = nCalls + 1
  /\ call[c].pc \notin {"admitted", "entered", "running"}
  /\ call'[c].pc \in {"admitted", "rejected"}
  /\ call'[c].gen = CurrentState(cb, now).generation
  /\ call'[c].at = CurrentState(cb, now).state
  /\ \A d \in Callers \ {c} : call'[d] = call[d]

\* caller c's base RoundTrip was invoked in this step
Starts(c) == call[c].pc = "admitted" /\ call'[c].pc = "entered"

\* caller c's outcome went through afterRequest in this step
Records(c) == call[c].pc = "running" /\ call'[c].pc \in {"done", "panicked"}

Failed(o) == o.panic \/ o.err # NoError

InFlight(c) == call[c].pc \in {"admitted", "entered", "running"}

Finished(c) == call[c].pc \in {"done", "panicked"}

\* the calls admitted in the breaker's current generation and not yet recorded
InFlightNow == {c \in Callers : InFlight(c) /\ call[c].gen = cb.generation}

\* ------------------------------------------------------------------ C1
\* C1 as stated: no base RoundTrip is invoked in a step taken while the
\* breaker is open and its timeout has not passed.
C1_NoStartWhileOpen ==
  [][\A c \in Callers :
       Starts(c) => ~(cb.state = StateOpen /\ now < cb.expiry)]_vars

\* C1 (amended): a call that goes through beforeRequest while the breaker is
\* open and the timeout has not passed (now <= expiry) is refused with
\* ErrOpenState, its operation is not invoked and the breaker is untouched;
\* so no call in flight was admitted in the open state.
C1_NoAdmissionWhileOpen ==
  /\ [](\A c \in Callers : InFlight(c) => call[c].at # StateOpen)
  /\ [][\A c \in Callers :
          (Decides(c) /\ cb.state = StateOpen /\ now <= cb.expiry)
            => /\ call'[c].pc = "rejected"
               /\ call'[c].ret = ExecuteRefusal(ErrOpenState)
               /\ nInvoked' = nInvoked
               /\ cb' = cb]_vars

C1_Witness ==
  \E c \in Callers :
    /\ call[c].pc = "rejected"
    /\ call[c].at = StateOpen
    /\ call[c].ret.err = ErrOpenState
    /\ cb.state = StateOpen
    /\ now < cb.expiry

\* ------------------------------------------------------------------ C2
\* C2 as stated: whenever the closed breaker's counts satisfy the trip policy
\* (no call in flight, no interval rollover due), the next call is refused.
C2_PolicyTrueRejectsNext ==
  [][\A c \in Callers :
       (/\ Decides(c)
        /\ cb.state = StateClosed
        /\ CurrentState(cb, now) = cb
        /\ \A d \in Callers : ~InFlight(d)
        /\ ReadyToTrip(opts.readyToTrip, cb.counts))
         => call'[c].pc = "rejected"]_vars

\* C2 (amended): when recording a failed call in the closed state makes the
\* trip policy true, the breaker opens with expiry now + timeout, and a call
\* that comes next, before the timeout has passed, is refused with
\* ErrOpenState without the invocation counter moving.
C2_FailFast ==
  [][/\ \A c \in Callers :
          (/\ Records(c)
           /\ Failed(call'[c].out)
           /\ ~call'[c].stale
           /\ CurrentState(cb, now).state = StateClosed
           /\ ReadyToTrip(opts.readyToTrip,
                          CountsOnFailure(CurrentState(cb, now).counts)))
            => /\ cb'.state = StateOpen
               /\ cb'.expiry = now + opts.timeout
     /\ \A c, d \in Callers :
          (/\ Decides(d)
           /\ Finished(c) /\ Failed(call[c].out) /\ ~call[c].stale
           /\ call[c].at = StateClosed
           /\ cb.generation = call[c].gen + 1
           /\ cb.state = StateOpen
           /\ now <= cb.expiry)
            => /\ call'[d].pc = "rejected"
               /\ call'[d].ret.err = ErrOpenState
               /\ nInvoked' = nInvoked]_vars

\* the test's scenario: two failures, the third call refused, counter at 2
C2_Witness ==
  /\ opts.readyToTrip = "failures2"
  /\ cb.state = StateOpen
  /\ callCount = 2
  /\ nCalls = 3
  /\ \E c \in Callers :
       /\ call[c].pc = "rejected"
       /\ call[c].ret.err = ErrOpenState
       /\ call[c].gen = cb.generation

\* ------------------------------------------------------------------ C3
\* C3 as stated: a call that goes through beforeRequest on an open breaker
\* with now >= expiry moves it to half-open and is admitted.
C3_ProbeAtExpiry ==
  [][\A c \in Callers :
       (Decides(c) /\ cb.state = StateOpen /\ now >= cb.expiry)
         => (call'[c].pc = "admitted" /\ cb'.state = StateHalfOpen)]_vars

\* C3 (amended): the breaker enters the open state with expiry = now +
\* timeout, and the first call that goes through beforeRequest with
\* now > expiry (strictly later) moves it to half-open and is admitted as the
\* first probe of the new generation, whatever the clock shows by then; at
\* now = expiry the call is still refused.
C3_TimeoutRecovery ==
  [][/\ (cb.state # StateOpen /\ cb'.state = StateOpen)
          => cb'.expiry = now + opts.timeout
     /\ \A c \in Callers :
          (Decides(c) /\ cb.state = StateOpen /\ now > cb.expiry)
            => /\ call'[c].pc = "admitted"
               /\ call'[c].at = StateHalfOpen
               /\ cb'.state = StateHalfOpen
               /\ cb'.generation = cb.generation + 1
               /\ cb'.counts = CountsOnRequest(ZeroCounts)
     /\ \A c \in Callers :
          (Decides(c) /\ cb.state = StateOpen /\ now = cb.expiry)
            => (call'[c].pc = "rejected" /\ cb' = cb)]_vars

\* a probe is running after the breaker sat open beyond its timeout
C3_Witness ==
  /\ cb.state = StateHalfOpen
  /\ now > opts.timeout + 2
  /\ \E c \in Callers :
       /\ call[c].pc = "running"
       /\ call[c].at = StateHalfOpen
       /\ call[c].gen = cb.generation

\* ------------------------------------------------------------------ C4
\* C4: a probe of the current half-open generation whose operation fails
\* (error or panic) sends the breaker to open at once, whatever the counts,
\* with a fresh timeout; a call that comes next, before that timeout has
\* passed, is refused with ErrOpenState.
C4_HalfOpenFailureReopens ==
  [][/\ \A c \in Callers :
          (/\ Records(c)
           /\ Failed(call'[c].out)
           /\ cb.state = StateHalfOpen
           /\ call[c].gen = cb.generation)
            => /\ cb'.state = StateOpen
               /\ cb'.generation = cb.generation + 1
               /\ cb'.expiry = now + opts.timeout
     /\ \A c, d \in Callers :
          (/\ Decides(d)
           /\ Finished(c) /\ Failed(call[c].out) /\ ~call[c].stale
           /\ call[c].at = StateHalfOpen
           /\ cb.generation = call[c].gen + 1
           /\ now <= cb.expiry)
            => /\ cb.state = StateOpen
               /\ call'[d].pc = "rejected"
               /\ call'[d].ret.err = ErrOpenState
               /\ nInvoked' = nInvoked]_vars

C4_Witness ==
  \E c, d \in Callers :
    /\ Finished(c) /\ Failed(call[c].out) /\ ~call[c].stale
    /\ call[c].at = StateHalfOpen
    /\ cb.generation = call[c].gen + 1
    /\ cb.state = StateOpen
    /\ call[d].pc = "rejected"
    /\ call[d].gen = cb.generation
    /\ call[d].ret.err = ErrOpenState

\* ------------------------------------------------------------------ C5
\* C5: in half-open the successes of the generation are consecutive and fewer
\* than maxRequests; recording a probe's success closes the breaker exactly
\* when it is the maxRequests-th success of the generation, and otherwise
\* leaves it half-open; a closed breaker admits every call.
C5_HalfOpenSuccessCloses ==
  /\ [](cb.state = StateHalfOpen
          => /\ cb.counts.TotalSuccesses < opts.maxRequests
             /\ cb.counts.ConsecutiveSuccesses = cb.counts.TotalSuccesses
             /\ cb.counts.TotalFailures = 0)
  /\ [][/\ \A c \in Callers :
             (/\ Records(c)
              /\ ~Failed(call'[c].out)
              /\ cb.state = StateHalfOpen
              /\ call[c].gen = cb.generation)
               => IF cb.counts.TotalSuccesses + 1 >= opts.maxRequests
                  THEN /\ cb'.state = StateClosed
                       /\ cb'.generation = cb.generation + 1
                  ELSE /\ cb'.state = StateHalfOpen
                       /\ cb'.generation = cb.generation
                       /\ cb'.counts.TotalSuccesses = cb.counts.TotalSuccesses + 1
        /\ \A c \in Callers :
             (Decides(c) /\ cb.state = StateClosed)
               => (call'[c].pc = "admitted" /\ cb'.state = StateClosed)]_vars

\* two probes succeeded with maxRequests = 2, the breaker closed and the
\* next call is let through
C5_Witness ==
  /\ opts.maxRequests = 2
  /\ cb.state = StateClosed
  /\ \E c, d \in Callers :
       /\ call[c].pc = "done" /\ ~Failed(call[c].out) /\ ~call[c].stale
       /\ call[c].at = StateHalfOpen
       /\ cb.generation = call[c].gen + 1
       /\ InFlight(d)
       /\ call[d].at = StateClosed
       /\ call[d].gen = cb.generation

\* ------------------------------------------------------------------ C6
\* C6: a call that was admitted and returned hands back exactly the response
\* and error its base RoundTrip produced, whatever the breaker did with the
\* outcome (counted, tripped on it, or dropped it as stale).
C6_PassThrough ==
  \A c \in Callers :
    call[c].pc = "done"
      => /\ call[c].ret.resp = call[c].out.resp
         /\ call[c].ret.err = call[c].out.err
         /\ (call[c].out.err # NoError => call[c].ret.resp = NoResponse)

\* an error handed back unchanged although its outcome was dropped as stale
C6_Witness ==
  \E c \in Callers :
    /\ call[c].pc = "done"
    /\ call[c].stale
    /\ call[c].out.err = NetworkError
    /\ call[c].ret.err = NetworkError

\* ------------------------------------------------------------------ C7
\* C7: when the breaker's generation at the time an admitted call completes
\* is not the one the call was admitted in, the outcome is not applied: the
\* breaker after afterRequest is the one the clock alone gives (the same for
\* a success, a failure and a panic), and with no expiry due it is unchanged,
\* counts and state included.
C7_StaleOutcomeDiscarded ==
  [][\A c \in Callers :
       (Records(c) /\ CurrentState(cb, now).generation # call[c].gen)
         => /\ call'[c].stale
            /\ cb' = CurrentState(cb, now)
            /\ (cb.state = StateHalfOpen => cb' = cb)
            /\ (cb.state = StateOpen /\ now <= cb.expiry => cb' = cb)
            /\ (cb.state = StateClosed /\ (cb.expiry = 0 \/ now <= cb.expiry)
                  => cb' = cb)]_vars

\* a failure of an earlier generation was dropped: the policy "one failure"
\* did not trip the closed breaker, whose counts hold no failure
C7_Witness ==
  \E c \in Callers :
    /\ call[c].pc = "done"
    /\ call[c].stale
    /\ call[c].out.err = NetworkError
    /\ opts.readyToTrip = "failures1"
    /\ cb.state = StateClosed
    /\ cb.counts.TotalFailures = 0
    /\ cb.counts.Requests > 0

\* ------------------------------------------------------------------ C8
\* C8: a step that takes the breaker into another state raises generation
\* and leaves the counts of the state entered at zero - plus, when the step
\* is the admission of the probe that caused the entry, that probe's own
\* request; generation never decreases (and starts at 1 with zero counts).
C8_ResetOnTransition ==
  /\ cb.generation = 1 /\ cb.counts = ZeroCounts /\ cb.state = StateClosed
  /\ [][/\ cb'.generation >= cb.generation
        /\ (cb'.state # cb.state)
             => /\ cb'.generation > cb.generation
                /\ \/ cb'.counts = ZeroCounts
                   \/ \E c \in Callers :
                        /\ Decides(c)
                        /\ call'[c].pc = "admitted"
                        /\ CurrentState(cb, now).state = cb'.state
                        /\ CurrentState(cb, now).counts = ZeroCounts
                        /\ cb'.counts = CountsOnRequest(ZeroCounts)]_vars

\* the breaker opened on a counted failure and its counts are zero again
C8_Witness ==
  /\ cb.state = StateOpen
  /\ cb.generation > 1
  /\ cb.counts = ZeroCounts
  /\ \E c \in Callers :
       /\ Finished(c) /\ Failed(call[c].out) /\ ~call[c].stale
       /\ call[c].at = StateClosed
       /\ cb.generation = call[c].gen + 1

\* ------------------------------------------------------------------ C9
\* C9: while the breaker is half-open, the calls admitted in its current
\* generation and still in flight number at most maxRequests; a call that
\* arrives when that many are in flight is refused and invokes nothing.
C9_ProbeBudget ==
  /\ [](cb.state = StateHalfOpen
          => /\ Cardinality(InFlightNow) <= opts.maxRequests
             /\ Cardinality(InFlightNow) <= cb.counts.Requests
             /\ cb.counts.Requests <= opts.maxRequests)
  /\ [][\A c \in Callers :
          (/\ Decides(c)
           /\ cb.state = StateHalfOpen
           /\ Cardinality(InFlightNow) >= opts.maxRequests)
            => /\ call'[c].pc = "rejected"
               /\ nInvoked' = nInvoked
               /\ cb' = cb]_vars

\* the budget is in use by a running probe and another call was refused
C9_Witness ==
  /\ cb.state = StateHalfOpen
  /\ Cardinality(InFlightNow) = opts.maxRequests
  /\ \E c \in Callers :
       /\ call[c].pc = "rejected"
       /\ call[c].at = StateHalfOpen
       /\ call[c].gen = cb.generation

\* ----------------------------------------------------------------- C10
\* C10 as stated: every refused call carries ErrOpenState.
C10_SameErrorForAllRefusals ==
  \A c \in Callers : call[c].pc = "rejected" => call[c].ret.err = ErrOpenState

\* C10 (amended): a call refused in half-open for lack of budget carries
\* ErrTooManyRequests ("too many requests"), a call refused in open carries
\* ErrOpenState ("circuit breaker is open"); both come without a response.
C10_RefusalErrorByState ==
  \A c \in Callers :
    call[c].pc = "rejected"
      => /\ call[c].ret.resp = NoResponse
         /\ call[c].at \in {StateOpen, StateHalfOpen}
         /\ (call[c].at = StateOpen => call[c].ret.err = ErrOpenState)
         /\ (call[c].at = StateHalfOpen => call[c].ret.err = ErrTooManyRequests)

C10_Witness ==
  \E c, d \in Callers :
    /\ call[c].pc = "rejected"
    /\ call[c].at = StateHalfOpen
    /\ call[c].ret.err = ErrTooManyRequests
    /\ InFlight(d)
    /\ call[d].at = StateHalfOpen
    /\ call[d].gen = call[c].gen

\* ----------------------------------------------------------------- C11
\* the options that name no trip policy: nil options, and Settings whose
\* ReadyToTrip is nil
NilOptionsGiven == opts = NewSettings(NilOptions)
NilReadyToTripGiven ==
  \E o \in OptionsInputs :
    ~o.isNil /\ o.ReadyToTrip = "nil" /\ opts = NewSettings(o)

\* the counts a failure of the current generation is judged on
CountsWithFailure == CountsOnFailure(CurrentState(cb, now).counts)

\* caller c's failure is being counted in the closed state in this step
RecordsClosedFailure(c) ==
  /\ Records(c)
  /\ Failed(call'[c].out)
  /\ ~call'[c].stale
  /\ CurrentState(cb, now).state = StateClosed

\* C11 as stated: with no trip policy supplied, a failure counted in the
\* closed state opens the breaker exactly when requests >= 5 and
\* failures / requests >= 0.6.
C11_RatioPolicyWithoutPolicy ==
  [][\A c \in Callers :
       (RecordsClosedFailure(c) /\ (NilOptionsGiven \/ NilReadyToTripGiven))
         => (cb'.state = StateOpen
               <=> /\ CountsWithFailure.Requests >= 5
                   /\ 10 * CountsWithFailure.TotalFailures
                        >= 6 * CountsWithFailure.Requests)]_vars

\* C11 (amended): with nil options a failure counted in the closed state
\* opens the breaker exactly when requests >= 5 and failures / requests >=
\* 0.6; with Settings whose ReadyToTrip is nil it opens exactly when that
\* failure is the sixth in a row or later (consecutive failures > 5); counting
\* a success never opens it.
C11_DefaultTripPolicy ==
  [][\A c \in Callers :
       /\ (RecordsClosedFailure(c) /\ NilOptionsGiven)
            => (cb'.state = StateOpen
                  <=> /\ CountsWithFailure.Requests >= 5
                      /\ 10 * CountsWithFailure.TotalFailures
                           >= 6 * CountsWithFailure.Requests)
       /\ (RecordsClosedFailure(c) /\ NilReadyToTripGiven)
            => (cb'.state = StateOpen
                  <=> CountsWithFailure.ConsecutiveFailures > 5)
       /\ (Records(c) /\ ~Failed(call'[c].out) /\ cb.state = StateClosed)
            => cb'.state = StateClosed]_vars

\* nil options: the fifth call's failure, the third of five, opened the breaker
C11_Witness ==
  /\ NilOptionsGiven
  /\ cb.state = StateOpen
  /\ nCalls = 5
  /\ callCount = 5
  /\ \E c, d \in Callers :
       /\ c # d
       /\ call[c].pc = "done" /\ Failed(call[c].out) /\ ~call[c].stale
       /\ call[d].pc = "done" /\ ~Failed(call[d].out)

\* ----------------------------------------------------------------- C12
\* C12: the base RoundTrip is invoked once for every admitted call, when the
\* call leaves "admitted", and never for a refused one: the invocations and
\* the admitted calls not yet started add up to the admitted calls, and the
\* counter moves only by one, in the step that starts an admitted call.
C12_NoRetries ==
  /\ [](/\ nInvoked + Cardinality({c \in Callers : call[c].pc = "admitted"})
             = nAdmitted
        /\ nAdmitted <= nCalls
        /\ ((\A c \in Callers : ~InFlight(c)) => nInvoked = nAdmitted)
        /\ callCount <= nInvoked)
  /\ [][/\ nInvoked' # nInvoked
             => /\ nInvoked' = nInvoked + 1
                /\ \E c \in Callers : Starts(c)
        /\ \A c \in Callers :
             (Decides(c) /\ call'[c].pc = "rejected")
               => /\ nInvoked' = nInvoked
                  /\ nAdmitted' = nAdmitted
                  /\ callCount' = callCount
        /\ callCount' # callCount
             => \/ callCount' = 0
                \/ \E c \in Callers :
                     /\ call[c].pc = "entered"
                     /\ call'[c].pc = "running"
                     /\ callCount' = call[c].seen + 1]_vars

\* five successful calls on the closed breaker: five invocations
C12_Witness ==
  /\ cb.state = StateClosed
  /\ cb.counts.TotalSuccesses = 5
  /\ nCalls = 5
  /\ nAdmitted = 5
  /\ nInvoked = 5
  /\ callCount = 5
  /\ \A c \in Callers : call[c].pc = "done"

\* ----------------------------------------------------------------- C13
\* C13: the breaker starts closed, and a step that changes its state goes
\* closed -> open, open -> half-open, half-open -> open or half-open ->
\* closed, never closed -> half-open and never open -> closed.
C13_StateEdges ==
  /\ cb.state = StateClosed
  /\ [][cb'.state # cb.state
          => <<cb.state, cb'.state>> \in
               { <<StateClosed, StateOpen>>, <<StateOpen, StateHalfOpen>>,
                 <<StateHalfOpen, StateOpen>>, <<StateHalfOpen, StateClosed>> }]_vars

\* closed again after a full round: closed, open, half-open, closed
C13_Witness ==
  /\ cb.state = StateClosed
  /\ cb.generation >= 4
  /\ \E c \in Callers :
       /\ call[c].pc = "done"
       /\ call[c].at = StateHalfOpen
       /\ ~Failed(call[c].out)

\* ----------------------------------------------------------------- C20
\* C20: a call that is refused (open before the timeout has passed, or
\* half-open with the budget used up) leaves state, generation, counts and
\* expiry as they were, and invokes nothing.
C20_RefusalChangesNothing ==
  [][\A c \in Callers :
       (Decides(c) /\ call'[c].pc = "rejected")
         => /\ cb'.state = cb.state
            /\ cb'.generation = cb.generation
            /\ cb'.counts = cb.counts
            /\ cb'.expiry = cb.expiry
            /\ nInvoked' = nInvoked]_vars

\* both kinds of refusal have happened and the open breaker's counts are zero
C20_Witness ==
  \E c, d \in Callers :
    /\ call[c].pc = "rejected" /\ call[c].ret.err = ErrOpenState
    /\ call[d].pc = "rejected" /\ call[d].ret.err = ErrTooManyRequests
    /\ cb.state = StateOpen
    /\ cb.generation = call[c].gen
    /\ cb.counts = ZeroCounts

\* ----------------------------------------------------------------- C21
\* C21 as stated: in every closed state requests = successes + failures,
\* also with calls in flight.
C21_RequestsCountedOnCompletion ==
  cb.state = StateClosed =>
    cb.counts.Requests = cb.counts.TotalSuccesses + cb.counts.TotalFailures

\* C21 (amended): requests is incremented when a call is admitted; a counted
\* success increments successes and consecutiveSuccesses and sets
\* consecutiveFailures to 0; a counted failure that leaves the breaker
\* closed increments failures and consecutiveFailures and sets
\* consecutiveSuccesses to 0; so in every closed state requests = successes
\* + failures + the calls of the current generation still in flight.
C21_CountingRule ==
  /\ [](cb.state = StateClosed =>
          cb.counts.Requests = cb.counts.TotalSuccesses + cb.counts.TotalFailures
                                 + Cardinality(InFlightNow))
  /\ [][\A c \in Callers :
          LET k == CurrentState(cb, now).counts
              closed == CurrentState(cb, now).state = StateClosed IN
          /\ (Decides(c) /\ closed)
               => /\ call'[c].pc = "admitted"
                  /\ cb'.counts = [k EXCEPT !.Requests = k.Requests + 1]
          /\ (Records(c) /\ closed /\ ~call'[c].stale /\ ~Failed(call'[c].out))
               => cb'.counts =
                    [k EXCEPT !.TotalSuccesses = k.TotalSuccesses + 1,
                              !.ConsecutiveSuccesses = k.ConsecutiveSuccesses + 1,
                              !.ConsecutiveFailures = 0]
          /\ (Records(c) /\ closed /\ ~call'[c].stale /\ Failed(call'[c].out)
                /\ cb'.state = StateClosed)
               => cb'.counts =
                    [k EXCEPT !.TotalFailures = k.TotalFailures + 1,
                              !.ConsecutiveFailures = k.ConsecutiveFailures + 1,
                              !.ConsecutiveSuccesses = 0]]_vars

\* closed with one success and one failure counted and a third call, of the
\* same generation, still running: requests = 3
C21_Witness ==
  /\ cb.state = StateClosed
  /\ cb.counts.Requests = 3
  /\ cb.counts.TotalSuccesses = 1
  /\ cb.counts.TotalFailures = 1
  /\ cb.counts.ConsecutiveFailures = 1
  /\ cb.counts.ConsecutiveSuccesses = 0
  /\ \E c \in Callers : call[c].pc = "running" /\ call[c].gen = cb.generation

\* ----------------------------------------------------------------- C22
\* caller c's success is being counted in the closed state in this step
RecordsClosedSuccess(c) ==
  /\ Records(c)
  /\ ~Failed(call'[c].out)
  /\ ~call'[c].stale
  /\ CurrentState(cb, now).state = StateClosed

\* the counts after the success of the current generation is counted
CountsWithSuccess == CountsOnSuccess(CurrentState(cb, now).counts)

\* C22 as stated: after every outcome counted in the closed state, success
\* or failure, the breaker is open exactly when the trip policy is true of
\* the counts.
C22_PolicyAfterEveryOutcome ==
  [][\A c \in Callers :
       /\ RecordsClosedFailure(c)
            => (cb'.state = StateOpen
                  <=> ReadyToTrip(opts.readyToTrip, CountsWithFailure))
       /\ RecordsClosedSuccess(c)
            => (cb'.state = StateOpen
                  <=> ReadyToTrip(opts.readyToTrip, CountsWithSuccess))]_vars

\* C22 (amended): in the closed state the trip policy is evaluated after
\* every counted failure and only then: the breaker opens exactly when the
\* policy is true of the counts with that failure; a counted success leaves
\* the breaker closed, in the same generation, whatever the policy says of
\* the counts.
C22_PolicyAfterFailureOnly ==
  [][\A c \in Callers :
       /\ RecordsClosedFailure(c)
            => (cb'.state = StateOpen
                  <=> ReadyToTrip(opts.readyToTrip, CountsWithFailure))
       /\ RecordsClosedSuccess(c)
            => /\ cb'.state = StateClosed
               /\ cb'.generation = CurrentState(cb, now).generation
               /\ cb'.counts = CountsWithSuccess]_vars

\* nil options: four failures, then a success; requests = 5, failures = 4,
\* the default policy is true of the counts and the breaker is closed
C22_Witness ==
  /\ NilOptionsGiven
  /\ cb.state = StateClosed
  /\ cb.counts.Requests = 5
  /\ cb.counts.TotalFailures = 4
  /\ cb.counts.TotalSuccesses = 1
  /\ cb.counts.ConsecutiveSuccesses = 1
  /\ DefaultReadyToTrip(cb.counts)

\* ----------------------------------------------------------------- C23
\* the closed breaker as an attempt leaves it when it starts a new
\* generation before counting the call
RolledOverAndCounted ==
  [state |-> StateClosed, generation |-> cb.generation + 1,
   counts |-> CountsOnRequest(ZeroCounts), expiry |-> now + opts.interval]

\* C23 as stated: an attempt on a closed breaker with a non-zero interval
\* that observes now >= expiry starts a new generation before it is counted.
C23_RolloverAtExpiry ==
  [][\A c \in Callers :
       (Decides(c) /\ cb.state = StateClosed
          /\ opts.interval # 0 /\ now >= cb.expiry)
         => cb' = RolledOverAndCounted]_vars

\* C23 (amended): an attempt on a closed breaker with a non-zero interval
\* that observes now > expiry clears the counts, advances the generation by
\* one and sets expiry = now + interval before the call is counted, and the
\* breaker stays closed; an attempt at now <= expiry is counted in the
\* standing generation; with a zero interval the closed breaker has no
\* expiry and the generation (and so the counts) is renewed only by a
\* change of state.
C23_IntervalRollover ==
  /\ []((cb.state = StateClosed /\ opts.interval = 0) => cb.expiry = 0)
  /\ [][\A c \in Callers :
          /\ (Decides(c) /\ cb.state = StateClosed
                /\ opts.interval # 0 /\ now > cb.expiry)
               => /\ cb' = RolledOverAndCounted
                  /\ call'[c].pc = "admitted"
                  /\ call'[c].gen = cb'.generation
          /\ (Decides(c) /\ cb.state = StateClosed
                /\ opts.interval # 0 /\ now <= cb.expiry)
               => cb' = [cb EXCEPT !.counts = CountsOnRequest(@)]
          /\ (opts.interval = 0 /\ cb'.generation # cb.generation)
               => cb'.state # cb.state]_vars

\* two calls so far: one admitted in generation 1 and still running, the
\* other admitted after the interval ran out, the first of generation 2
C23_Witness ==
  /\ opts.interval # 0
  /\ cb.state = StateClosed
  /\ cb.generation = 2
  /\ cb.counts = CountsOnRequest(ZeroCounts)
  /\ cb.expiry = now + opts.interval
  /\ nCalls = 2
  /\ \E c, d \in Callers :
       /\ call[c].pc = "running" /\ call[c].gen = 1
       /\ call[d].pc = "admitted" /\ call[d].gen = 2

\* ----------------------------------------------------------------- C24
\* C24: the passage of time alone leaves the breaker as it is; state,
\* generation, counts and expiry change only in a step of Execute
\* (beforeRequest or afterRequest of some caller).
C24_LazyTransitions ==
  [][/\ (now' # now) => (cb' = cb /\ call' = call)
     /\ (cb' # cb) => \E c \in Callers : Decides(c) \/ Records(c)]_vars

\* nobody is calling; the breaker is open although its timeout has run out
C24_Witness ==
  /\ cb.state = StateOpen
  /\ cb.expiry < now - 1
  /\ \A c \in Callers : ~InFlight(c)

\* ----------------------------------------------------------------- C25
\* C25: while a caller's operation is running (and whether or not it ever
\* returns) every other caller can still go through beforeRequest, start
\* its own operation and have its outcome recorded; an attempt on a closed
\* breaker is admitted whoever else is in flight, so all callers can have
\* their operations running at once.
C25_NoSerialization ==
  /\ [](\A c \in Callers : \A d \in Callers \ {c} :
          call[c].pc = "running" =>
            /\ (~InFlight(d) /\ nCalls < MaxCalls) => ENABLED BeforeRequest(d)
            /\ (call[d].pc = "admitted") => ENABLED OperationStart(d)
            /\ (call[d].pc = "entered") => ENABLED CallCountStore(d)
            /\ (call[d].pc = "running")
                 => \A o \in Outcomes : ENABLED AfterRequest(d, o))
  /\ [][\A d \in Callers :
          (Decides(d) /\ CurrentState(cb, now).state = StateClosed)
            => call'[d].pc = "admitted"]_vars

\* the breaker is closed and every caller's operation is running
C25_Witness ==
  /\ cb.state = StateClosed
  /\ \A c \in Callers : call[c].pc = "running" /\ call[c].gen = cb.generation
  /\ cb.counts.Requests = Cardinality(Callers)

\* ----------------------------------------------------------------- C26
\* C26: a base RoundTrip that returns with a nil error is counted as a
\* success whatever the status of its response, and one that returns an
\* error is counted as a failure; the failures go up, and the breaker
\* opens, only in a step that records an error (or a panic), so responses
\* with nil error never trip the breaker.
C26_ErrorOrNoError ==
  [][/\ \A c \in Callers :
          LET h == CurrentState(cb, now)
              o == call'[c].out IN
          (Records(c) /\ ~call'[c].stale /\ ~o.panic) =>
            IF o.err = NoError
            THEN /\ cb'.state # StateOpen
                 /\ cb'.state = h.state
                      => cb'.counts =
                           [h.counts EXCEPT
                              !.TotalSuccesses = @ + 1,
                              !.ConsecutiveSuccesses = @ + 1,
                              !.ConsecutiveFailures = 0]
                 /\ cb'.state # h.state
                      => /\ h.state = StateHalfOpen
                         /\ cb'.state = StateClosed
                         /\ cb'.counts = ZeroCounts
            ELSE /\ cb'.state = h.state
                      => cb'.counts =
                           [h.counts EXCEPT
                              !.TotalFailures = @ + 1,
                              !.ConsecutiveFailures = @ + 1,
                              !.ConsecutiveSuccesses = 0]
                 /\ cb'.state # h.state => cb'.state = StateOpen
     /\ (\/ cb'.counts.TotalFailures > cb.counts.TotalFailures
         \/ (cb'.state = StateOpen /\ cb.state # StateOpen))
          => \E c \in Callers : Records(c) /\ Failed(call'[c].out)]_vars

\* the policy opens on the first failure; every caller got a 5xx response
\* with nil error, all were counted as successes and the breaker is closed
C26_Witness ==
  /\ opts.readyToTrip = "failures1"
  /\ cb.state = StateClosed
  /\ cb.counts.TotalFailures = 0
  /\ cb.counts.TotalSuccesses = Cardinality(Callers)
  /\ \A c \in Callers :
       /\ call[c].pc = "done"
       /\ call[c].out.resp = StatusServerError
       /\ call[c].out.err = NoError
       /\ call[c].ret = call[c].out

\* ----------------------------------------------------------------- C27
\* caller c was admitted in the closed state and the breaker has not left
\* the closed state since: a closed breaker less than three generations on
\* has only started new counting intervals (closed -> open -> half-open ->
\* closed takes three generations)
NoTransitionSinceAdmission(c) ==
  /\ call[c].at = StateClosed
  /\ CurrentState(cb, now).state = StateClosed
  /\ CurrentState(cb, now).generation < call[c].gen + 3

\* C27 as stated: a failing call admitted in the closed state that completes
\* with no state transition since its admission is counted and seen by the
\* trip policy, however many counting intervals passed meanwhile.
C27_CountedWhateverTheInterval ==
  [][\A c \in Callers :
       (Records(c) /\ Failed(call'[c].out) /\ NoTransitionSinceAdmission(c))
         => /\ cb'.state = StateOpen
                 <=> ReadyToTrip(opts.readyToTrip, CountsWithFailure)
            /\ cb'.state = StateClosed => cb'.counts = CountsWithFailure]_vars

\* C27 (amended): a failing call admitted in the closed state is counted
\* and seen by the trip policy when it completes in the generation that
\* admitted it - no state transition and no new counting interval since -
\* and then the policy "failures >= 1" opens the breaker; once the
\* generation has changed, by a transition or by the interval alone, the
\* failure is dropped and the breaker is left as currentState gives it.
C27_CountedInOwnGeneration ==
  [][\A c \in Callers :
       (Records(c) /\ Failed(call'[c].out) /\ call[c].at = StateClosed)
         => IF CurrentState(cb, now).generation = call[c].gen
            THEN /\ CurrentState(cb, now).state = StateClosed
                 /\ cb'.state = StateOpen
                      <=> ReadyToTrip(opts.readyToTrip, CountsWithFailure)
                 /\ cb'.state = StateClosed => cb'.counts = CountsWithFailure
                 /\ opts.readyToTrip = "failures1" => cb'.state = StateOpen
                 /\ ~call'[c].stale
            ELSE /\ cb' = CurrentState(cb, now)
                 /\ call'[c].stale]_vars

\* the policy opens on the first failure; a call admitted in generation 1
\* failed after the interval ran out, and the breaker is closed, in
\* generation 2, with no failure counted
C27_Witness ==
  /\ opts.readyToTrip = "failures1"
  /\ cb.state = StateClosed
  /\ cb.generation = 2
  /\ cb.counts.TotalFailures = 0
  /\ \E c \in Callers :
       /\ call[c].pc \in {"done", "panicked"}
       /\ Failed(call[c].out)
       /\ call[c].gen = 1
       /\ call[c].stale

\* ----------------------------------------------------------------- C28
\* C28: ReadyToTrip is called only when a failure of the current generation
\* is counted in the closed state, and the counts it is given have
\* requests >= 1 and failures <= requests; a call in flight in the current
\* generation is already in the requests, and the outcome of a call
\* admitted before a new counting interval is dropped without asking the
\* policy.
C28_PolicyNeverSeesZeroRequests ==
  /\ [](\A c \in Callers :
          (InFlight(c) /\ call[c].gen = CurrentState(cb, now).generation)
            => CurrentState(cb, now).counts.Requests >= 1)
  /\ [][\A c \in Callers :
          /\ RecordsClosedFailure(c)
               => /\ CountsWithFailure.Requests >= 1
                  /\ CountsWithFailure.TotalFailures <= CountsWithFailure.Requests
          /\ (Records(c) /\ call'[c].stale)
               => cb' = CurrentState(cb, now)]_vars

\* a new counting interval began with caller c's call, which failed and was
\* counted (requests = 1, failures = 1); caller d's call, admitted before,
\* failed afterwards and was dropped
C28_Witness ==
  /\ cb.state = StateClosed
  /\ cb.generation = 2
  /\ cb.counts.Requests = 1
  /\ cb.counts.TotalFailures = 1
  /\ \E c, d \in Callers :
       /\ call[c].pc \in {"done", "panicked"} /\ Failed(call[c].out)
       /\ call[c].gen = 2 /\ ~call[c].stale
       /\ call[d].pc \in {"done", "panicked"} /\ Failed(call[d].out)
       /\ call[d].gen = 1 /\ call[d].stale

\* =========================================================================
\* The breaker in runs without end (LiveSpec)
\*
\* Spec stops the clock at MaxTime and the callers after MaxCalls calls.
\* For claims about what happens eventually the same transport is run here
\* with callers that call again and again and a clock that never stops.
\* The state is kept finite by writing it relative to the present:
\*   - the clock origin moves with the clock, so now keeps its value and a
\*     tick brings every expiry one unit nearer (an expiry that has passed
\*     stays passed: expiry.Before(now) is all the breaker asks);
\*   - the current generation is always written 1 and the generation of a
\*     call admitted in any earlier one 0 (afterRequest only asks whether
\*     the two are equal);
\*   - a count above MaxCount is written MaxCount + 1, and a failure is
\*     recorded only in a generation whose requests are at most MaxCount, so
\*     that ReadyToTrip always sees exact counts;
\*   - the MockRoundTripper's callCount above MaxCallCount is written
\*     MaxCallCount + 1;
\*   - the counters of calls made (nCalls, nAdmitted, nInvoked) stay 0.
\* =========================================================================
MaxCount == 6
MaxCallCount == 2

Saturated(n) == IF n > MaxCount THEN MaxCount + 1 ELSE n

SaturatedCallCount(n) == IF n > MaxCallCount THEN MaxCallCount + 1 ELSE n

\* the breaker g relative to its own generation, counts capped
RelativeGate(g) ==
  [g EXCEPT !.generation = 1,
            !.counts = [f \in DOMAIN g.counts |-> Saturated(g.counts[f])]]

\* the calls k relative to the generation of the breaker g
RelativeCalls(k, g) ==
  [c \in Callers |->
     [k[c] EXCEPT !.gen = IF k[c].gen = g.generation THEN 1 ELSE 0]]

\* The options of LiveSpec: custom ones of Spec - with and without an
\* interval, maxRequests 1 and 2, a policy given and left nil - and the
\* defaults with the 60 s interval and timeout replaced by no interval and
\* a timeout of one unit (the long waits only lengthen the runs).
LiveOptionsInputs ==
  { CustomOptions(1, 1, 2, "failures1"),
    CustomOptions(2, 0, 1, "failures1"),
    CustomOptions(0, 0, 0, "nil"),
    CustomOptions(DefaultMaxRequests, 0, 1, "ratio") }

LiveInit ==
  /\ \E o \in LiveOptionsInputs : opts = NewSettings(o)
  /\ now = MaxTime
  /\ cb = ToNewGeneration([state |-> StateClosed, generation |-> 0,
                           counts |-> ZeroCounts, expiry |-> 0], now)
  /\ call = [c \in Callers |-> IdleCall]
  /\ callCount = 0
  /\ nCalls = 0
  /\ nAdmitted = 0
  /\ nInvoked = 0
  /\ NoMiddleware

\* RoundTrip is entered and Execute runs beforeRequest
LiveBeforeRequest(c) ==
  /\ call[c].pc \in {"idle", "done", "rejected", "panicked"}
  /\ LET e == BeforeRequestError(cb, now)
         h == CurrentState(cb, now)
         g == BeforeRequestGate(cb, now)
         k == [call EXCEPT ![c] =
                 [pc |-> IF e = NoError THEN "admitted" ELSE "rejected",
                  gen |-> h.generation, at |-> h.state, out |-> NoOutcome,
                  ret |-> IF e = NoError THEN NoOutcome ELSE ExecuteRefusal(e),
                  stale |-> FALSE, seen |-> 0]] IN
     /\ cb' = RelativeGate(g)
     /\ call' = RelativeCalls(k, g)
  /\ UNCHANGED <<opts, now, callCount, nCalls, nAdmitted, nInvoked>>
  /\ UNCHANGED mwVars

\* req() is called: the base RoundTrip is entered and reads m.callCount
LiveOperationStart(c) ==
  /\ call[c].pc = "admitted"
  /\ call' = [call EXCEPT ![c].pc = "entered", ![c].seen = callCount]
  /\ UNCHANGED <<opts, cb, now, callCount, nCalls, nAdmitted, nInvoked>>
  /\ UNCHANGED mwVars

\* MockRoundTripper.RoundTrip: the write of m.callCount++
LiveCallCountStore(c) ==
  /\ call[c].pc = "entered"
  /\ call' = [call EXCEPT ![c].pc = "running", ![c].seen = 0]
  /\ callCount' = SaturatedCallCount(call[c].seen + 1)
  /\ UNCHANGED <<opts, cb, now, nCalls, nAdmitted, nInvoked>>
  /\ UNCHANGED mwVars

\* MockRoundTripper.Reset: m.callCount = 0
LiveMockRoundTripperReset ==
  /\ callCount' = 0
  /\ UNCHANGED <<opts, cb, now, call, nCalls, nAdmitted, nInvoked>>
  /\ UNCHANGED mwVars

\* the base RoundTrip returns o (or panics); Execute runs afterRequest
LiveAfterRequest(c, o) ==
  /\ call[c].pc = "running"
  /\ Failed(o) => CurrentState(cb, now).counts.Requests <= MaxCount
  /\ LET g == AfterRequestGate(cb, call[c].gen,
                               IsSuccessful(o) /\ ~o.panic, now)
         k == [call EXCEPT
                 ![c].pc = IF o.panic THEN "panicked" ELSE "done",
                 ![c].out = o,
                 ![c].ret = IF o.panic THEN NoOutcome ELSE ExecuteReturn(o),
                 ![c].stale = (CurrentState(cb, now).generation # call[c].gen)] IN
     /\ cb' = RelativeGate(g)
     /\ call' = RelativeCalls(k, g)
  /\ UNCHANGED <<opts, now, callCount, nCalls, nAdmitted, nInvoked>>
  /\ UNCHANGED mwVars

\* time passes: seen from the moving origin every expiry comes one nearer
LiveTick ==
  /\ cb' = [cb EXCEPT !.expiry = IF @ <= 1 THEN @ ELSE @ - 1]
  /\ UNCHANGED <<opts, now, call, callCount, nCalls, nAdmitted, nInvoked>>
  /\ UNCHANGED mwVars

LiveNext ==
  \/ \E c \in Callers : LiveBeforeRequest(c)
  \/ \E c \in Callers : LiveOperationStart(c)
  \/ \E c \in Callers : LiveCallCountStore(c)
  \/ LiveMockRoundTripperReset
  \/ \E c \in Callers, o \in Outcomes : LiveAfterRequest(c, o)
  \/ LiveTick

\* time keeps advancing, every caller keeps calling Execute, every admitted
\* operation is started and returns
LiveFairness ==
  /\ WF_vars(LiveTick)
  /\ \A c \in Callers :
       /\ WF_vars(LiveBeforeRequest(c))
       /\ WF_vars(LiveOperationStart(c))
       /\ WF_vars(LiveCallCountStore(c))
       /\ WF_vars(\E o \in Outcomes : LiveAfterRequest(c, o))

LiveSpec == LiveInit /\ [][LiveNext]_vars /\ LiveFairness

\* ----------------------------------------------------------------- C29
\* from here on no failed call is recorded
NoFailureRecorded ==
  \A c \in Callers : Records(c) => ~Failed(call'[c].out)

\* C29: in a run where time keeps advancing, the callers keep calling and
\* every admitted operation returns, if from some point on every operation
\* succeeds then from some point on the breaker is closed for ever (so it
\* stays neither open nor half-open for ever).
C29_RecoveryLiveness ==
  (<>[][NoFailureRecorded]_vars) => <>[](cb.state = StateClosed)

\* the breaker is closed again: a probe admitted in the half-open state
\* returned successfully and its success was counted
C29_Witness ==
  /\ cb.state = StateClosed
  /\ cb.counts = ZeroCounts
  /\ \E c \in Callers :
       /\ call[c].pc = "done"
       /\ call[c].at = StateHalfOpen
       /\ ~Failed(call[c].out)
       /\ ~call[c].stale

\* =========================================================================
\* Authorization middleware (package auth): NewAuthorizationMiddleware
\* =========================================================================
MaxFns == 2              \* length of opts.AuthorizationFns
MaxServed == 3           \* requests one middleware serves in a behaviour

StatusUnauthorized == "401 Unauthorized"
StatusForbidden == "403 Forbidden"
StatusNoContent == "204 No Content"

\* a nil render.Renderer
NoRenderer == [isNil |-> TRUE, HTTPStatusCode |-> "", Message |-> "", err |-> FALSE]

\* a render.Renderer of the caller whose Render method returns an error
FailingRenderer == [isNil |-> FALSE, HTTPStatusCode |-> "", Message |-> "", err |-> TRUE]

\* weberrors.NewAuthenticationRequiredResponse()
AuthenticationRequiredResponse ==
  [isNil |-> FALSE, HTTPStatusCode |-> StatusUnauthorized, Message |-> "Authentication required",
   err |-> FALSE]

\* weberrors.NewAccessDeniedResponse()
AccessDeniedResponse ==
  [isNil |-> FALSE, HTTPStatusCode |-> StatusForbidden, Message |-> "Access denied",
   err |-> FALSE]

\* weberrors.NewPanicRecoveryResponse()
PanicRecoveryResponse ==
  [isNil |-> FALSE, HTTPStatusCode |-> StatusServerError, Message |-> "An unexpected error occurred",
   err |-> FALSE]

\* httptest.NewRecorder(): nothing written, Code reads 200
NewRecorder == [wroteHeader |-> FALSE, Code |-> StatusOK, Body |-> <<>>]

\* ResponseWriter.WriteHeader: only the first call sets the status
WriteHeader(w, code) ==
  IF w.wroteHeader THEN w ELSE [w EXCEPT !.wroteHeader = TRUE, !.Code = code]

\* ResponseWriter.Write: an implicit WriteHeader(200), then the body
Write(w, b) ==
  [WriteHeader(w, StatusOK) EXCEPT !.Body = Append(@, b)]

\* render.Render(w, req, v): v.Render sets the status, render.Respond writes
\* it and the body.  A nil v is a method call on a nil interface: it panics
\* before anything is written.  An error of v.Render is returned before
\* anything is written, and the middlewares panic with it (panic(err)).
RenderPanics(v) == v = NoRenderer

RenderFails(v) == ~RenderPanics(v) /\ v.err

Render(w, v) ==
  IF RenderPanics(v) \/ RenderFails(v) THEN w
  ELSE Write(WriteHeader(w, v.HTTPStatusCode), v.Message)

\* the requests' credentials: what req.BasicAuth() returns
NoCredentials == [ok |-> FALSE, username |-> "", password |-> ""]
BasicAuth(u, p) == [ok |-> TRUE, username |-> u, password |-> p]

AuthRequests ==
  {NoCredentials, BasicAuth("testuser", "testpass"),
   BasicAuth("testuser", "wrongpass"), BasicAuth("", "")}

\* AllowBasicAuthUser(options): both given, both equal to the options'
AllowBasicAuthUser(options, req) ==
  /\ req.ok
  /\ ~(req.username = "" \/ req.password = "")
  /\ req.username = options.Username
  /\ req.password = options.Password

RejectAll(req) == FALSE

\* the authorization functions handed to the middleware, by name
AuthorizationFnInputs == {"RejectAll", "AllowBasicAuthUser", "AllowAll"}

AuthorizationFn(fn, req) ==
  CASE fn = "RejectAll" -> RejectAll(req)
    [] fn = "AllowBasicAuthUser" ->
         AllowBasicAuthUser([Username |-> "testuser", Password |-> "testpass"], req)
    [] fn = "AllowAll" -> TRUE

DefaultAuthorizationMiddlewareOptions ==
  [AuthorizationFns |-> <<"RejectAll">>,
   ErrorResponse |-> AuthenticationRequiredResponse]

RECURSIVE SeqsUpTo(_, _)
SeqsUpTo(S, n) ==
  IF n = 0 THEN {<<>>}
  ELSE LET shorter == SeqsUpTo(S, n - 1) IN
       shorter \cup {Append(q, x) : q \in shorter, x \in S}

\* the opts argument of NewAuthorizationMiddleware: nil or a struct
AuthOptionsInputs ==
  {[isNil |-> TRUE, AuthorizationFns |-> <<>>, ErrorResponse |-> NoRenderer]}
  \cup {[isNil |-> FALSE, AuthorizationFns |-> fns, ErrorResponse |-> e] :
          fns \in SeqsUpTo(AuthorizationFnInputs, MaxFns),
          e \in {NoRenderer, AuthenticationRequiredResponse, AccessDeniedResponse}}

\* the loop that lets the last function decide instead of the first true
RECURSIVE TryAuthorizationFns_LastDecides(_, _, _)
TryAuthorizationFns_LastDecides(fns, req, n) ==
  IF fns = <<>> THEN [tried |-> n, authorized |-> FALSE]
  ELSE IF Len(fns) = 1
       THEN [tried |-> n + 1, authorized |-> AuthorizationFn(Head(fns), req)]
       ELSE TryAuthorizationFns_LastDecides(Tail(fns), req, n + 1)

\* for _, authFn := range opts.AuthorizationFns: n functions tried so far
RECURSIVE TryAuthorizationFns(_, _, _)
TryAuthorizationFns(fns, req, n) ==
  IF fns = <<>> THEN [tried |-> n, authorized |-> FALSE]
  ELSE IF AuthorizationFn(Head(fns), req)
       THEN [tried |-> n + 1, authorized |-> TRUE]
       ELSE TryAuthorizationFns(Tail(fns), req, n + 1)

\* the wrapped handler of the tests: w.WriteHeader(http.StatusOK)
NextHandler(w) == WriteHeader(w, StatusOK)

NewAuthorizationMiddleware(o) ==
  [nilOpts |-> o.isNil,
   opts |-> IF o.isNil THEN DefaultAuthorizationMiddlewareOptions
            ELSE [AuthorizationFns |-> o.AuthorizationFns,
                  ErrorResponse |-> o.ErrorResponse],
   served |-> 0, nextCalls |-> 0, req |-> NoCredentials, tried |-> 0,
   handlerCalled |-> FALSE, panicked |-> FALSE, rr |-> NewRecorder]

AuthInit ==
  /\ \E o \in AuthOptionsInputs : auth = NewAuthorizationMiddleware(o)
  /\ cors = NotConstructed
  /\ recovery = NotConstructed
  /\ mock = NotConstructed
  /\ rid = NotConstructed
  /\ NoCircuitBreaker

\* middleware(next).ServeHTTP(rr, req) with a fresh recorder
AuthServeHTTP(req) ==
  /\ auth.served < MaxServed
  /\ LET r == TryAuthorizationFns(auth.opts.AuthorizationFns, req, 0) IN
     auth' = [auth EXCEPT
                !.served = @ + 1,
                !.req = req,
                !.tried = r.tried,
                !.handlerCalled = r.authorized,
                !.nextCalls = IF r.authorized THEN @ + 1 ELSE @,
                !.panicked = /\ ~r.authorized
                             /\ \/ RenderPanics(auth.opts.ErrorResponse)
                                \/ RenderFails(auth.opts.ErrorResponse),
                !.rr = IF r.authorized THEN NextHandler(NewRecorder)
                       ELSE Render(NewRecorder, auth.opts.ErrorResponse)]
  /\ UNCHANGED <<cbVars, cors, recovery, mock, rid>>

AuthNext == \E req \in AuthRequests : AuthServeHTTP(req)

AuthSpec == AuthInit /\ [][AuthNext]_vars

\* the functions of the list that accept the request served last
Accepting == {i \in 1..Len(auth.opts.AuthorizationFns) :
                AuthorizationFn(auth.opts.AuthorizationFns[i], auth.req)}

DefaultMaxAge == 3600
CustomMaxAge == 7200

\* a header the response does not carry
Absent == "<absent>"

AnyOrigin == "*"

\* fmt.Sprintf("%d", n) on the MaxAge values in use
FormatMaxAge(n) ==
  CASE n = DefaultMaxAge -> "3600"
    [] n = CustomMaxAge -> "7200"

DefaultCORSMiddlewareOptions ==
  [AllowOrigin |-> AnyOrigin, AllowCredentials |-> FALSE, MaxAge |-> DefaultMaxAge,
   AdditionalAllowHeaders |-> <<>>, AdditionalExposeHeaders |-> <<>>]

CORSOrigins == {AnyOrigin, "https://localhost", ""}

\* the opts argument of NewCORSMiddleware: nil or a struct
CORSOptionsInputs ==
  {[isNil |-> TRUE, opts |-> DefaultCORSMiddlewareOptions]}
  \cup {[isNil |-> FALSE,
         opts |-> [AllowOrigin |-> o, AllowCredentials |-> c, MaxAge |-> m,
                   AdditionalAllowHeaders |-> h, AdditionalExposeHeaders |-> <<>>]] :
          o \in CORSOrigins, c \in BOOLEAN, m \in {0, CustomMaxAge},
          h \in {<<>>, <<"X-Custom-Header">>}}

\* the header map of a fresh recorder, restricted to the CORS headers
NoCORSHeaders ==
  [AccessControlAllowOrigin |-> Absent, AccessControlAllowMethods |-> Absent,
   AccessControlAllowHeaders |-> Absent, AccessControlAllowCredentials |-> Absent,
   AccessControlExposeHeaders |-> Absent, AccessControlMaxAge |-> Absent]

\* strings.Join(append([]string{Accept, Content-Type}, opts.AdditionalAllowHeaders...))
AllowHeaders(o) == <<"Accept", "Content-Type">> \o o.AdditionalAllowHeaders

\* strings.Join(append([]string{Cache-Control, ...}, opts.AdditionalExposeHeaders...))
ExposeHeaders(o) ==
  <<"Cache-Control", "Content-Security-Policy", "Content-Type", "Location">>
    \o o.AdditionalExposeHeaders

\* NewCORSMiddleware: nil opts become the defaults; the struct the caller
\* handed in is normalised in place and read again on every request
NewCORSMiddleware(i) ==
  [nilOpts |-> i.isNil,
   opts |-> IF i.opts.AllowOrigin = AnyOrigin /\ i.opts.AllowCredentials
            THEN [i.opts EXCEPT !.AllowCredentials = FALSE] ELSE i.opts,
   served |-> 0, writes |-> 0, method |-> "", pc |-> "idle", seen |-> i.opts,
   assigned |-> FALSE,
   Header |-> NoCORSHeaders, rr |-> NewRecorder, handlerCalled |-> FALSE]

CORSInit ==
  /\ \E i \in CORSOptionsInputs : cors = NewCORSMiddleware(i)
  /\ auth = NotConstructed
  /\ recovery = NotConstructed
  /\ mock = NotConstructed
  /\ rid = NotConstructed
  /\ NoCircuitBreaker

\* middleware(next).ServeHTTP(rr, req) with a fresh recorder, up to the
\* Allow-Headers header: fn reads opts.AllowOrigin for the first time and
\* sets the origin header from it.  The struct is shared with the caller and
\* read without synchronisation, so the caller's assignments fall between
\* the steps of fn; seen is the struct as it is when fn starts, and assigned
\* tells whether the caller has assigned to it since.
CORSServeHTTP(method) ==
  /\ cors.pc = "idle"
  /\ cors.served < MaxServed
  /\ cors' = [cors EXCEPT
                !.served = @ + 1,
                !.method = method,
                !.pc = "credentials",
                !.seen = cors.opts,
                !.assigned = FALSE,
                !.Header = [NoCORSHeaders EXCEPT
                   !.AccessControlAllowOrigin = cors.opts.AllowOrigin,
                   !.AccessControlAllowMethods =
                      <<"GET", "HEAD", "POST", "PUT", "PATCH", "DELETE">>,
                   !.AccessControlAllowHeaders = AllowHeaders(cors.opts)],
                !.rr = NewRecorder,
                !.handlerCalled = FALSE]
  /\ UNCHANGED <<cbVars, auth, recovery, mock, rid>>

\* if opts.AllowCredentials && ...: the left operand; false skips the right
CORSReadAllowCredentials ==
  /\ cors.pc = "credentials"
  /\ cors' = [cors EXCEPT !.pc = IF cors.opts.AllowCredentials THEN "origin" ELSE "expose"]
  /\ UNCHANGED <<cbVars, auth, recovery, mock, rid>>

\* ... && opts.AllowOrigin != "*": the second read of opts.AllowOrigin, and
\* the credentials header when it is not the wildcard
CORSReadAllowOrigin ==
  /\ cors.pc = "origin"
  /\ cors' = [cors EXCEPT
                !.pc = "expose",
                !.Header.AccessControlAllowCredentials =
                   IF cors.opts.AllowOrigin # AnyOrigin THEN "true" ELSE @]
  /\ UNCHANGED <<cbVars, auth, recovery, mock, rid>>

\* the rest of fn: the expose header, then the preflight answer (Max-Age
\* when opts.MaxAge > 0, 204) or the next handler
CORSRespond ==
  /\ cors.pc = "expose"
  /\ cors' = [cors EXCEPT
                !.pc = "idle",
                !.Header.AccessControlExposeHeaders = ExposeHeaders(cors.opts),
                !.Header.AccessControlMaxAge =
                   IF cors.method = "OPTIONS" /\ cors.opts.MaxAge > 0
                   THEN FormatMaxAge(cors.opts.MaxAge) ELSE @,
                !.rr = IF cors.method = "OPTIONS"
                       THEN WriteHeader(NewRecorder, StatusNoContent)
                       ELSE NextHandler(NewRecorder),
                !.handlerCalled = (cors.method # "OPTIONS")]
  /\ UNCHANGED <<cbVars, auth, recovery, mock, rid>>

\* the caller assigns to a field of the struct it handed in
SetAllowOrigin(o) ==
  /\ ~cors.nilOpts
  /\ cors.writes < MaxServed
  /\ cors' = [cors EXCEPT !.opts.AllowOrigin = o, !.writes = @ + 1,
                           !.assigned = (@ \/ cors.pc # "idle")]
  /\ UNCHANGED <<cbVars, auth, recovery, mock, rid>>

SetAllowCredentials(c) ==
  /\ ~cors.nilOpts
  /\ cors.writes < MaxServed
  /\ cors' = [cors EXCEPT !.opts.AllowCredentials = c, !.writes = @ + 1,
                           !.assigned = (@ \/ cors.pc # "idle")]
  /\ UNCHANGED <<cbVars, auth, recovery, mock, rid>>

CORSNext ==
  \/ \E method \in {"GET", "OPTIONS"} : CORSServeHTTP(method)
  \/ CORSReadAllowCredentials
  \/ CORSReadAllowOrigin
  \/ CORSRespond
  \/ \E o \in CORSOrigins : SetAllowOrigin(o)
  \/ \E c \in BOOLEAN : SetAllowCredentials(c)

CORSSpec == CORSInit /\ [][CORSNext]_vars

\* C15: no response carries Access-Control-Allow-Credentials: true together
\* with Access-Control-Allow-Origin: *, whenever the options are assigned;
\* and a finished response whose options were not assigned while it was
\* served carries the credentials header iff AllowCredentials is true and
\* AllowOrigin is not "*".
C15_NoCredentialsWithWildcard ==
  /\ ~(cors.Header.AccessControlAllowCredentials = "true"
       /\ cors.Header.AccessControlAllowOrigin = AnyOrigin)
  /\ (cors.served > 0 /\ cors.pc = "idle" /\ ~cors.assigned) =>
       /\ cors.Header.AccessControlAllowOrigin = cors.seen.AllowOrigin
       /\ cors.Header.AccessControlAllowCredentials \in {"true", Absent}
       /\ cors.Header.AccessControlAllowCredentials = "true"
            <=> (cors.seen.AllowCredentials /\ cors.seen.AllowOrigin # AnyOrigin)

\* =========================================================================
\* Panic-recovery middleware (package resiliency): NewPanicRecoveryMiddleware
\* =========================================================================
\* what recover() returns in the deferred function
NoPanic == "nil"
ErrAbortHandler == "http.ErrAbortHandler"

\* the values the wrapped handler panics with: a string, the sentinel, an
\* error that wraps the sentinel, and panic(nil), which reaches recover() as
\* a *runtime.PanicNilError
PanicValues ==
  {"test panic", ErrAbortHandler, "fmt.Errorf(%w, http.ErrAbortHandler)",
   "runtime.PanicNilError"}

\* the wrapped handler: it may write a 200 header, then returns or panics
HandlerInputs ==
  {[writes |-> w, panic |-> v] : w \in BOOLEAN, v \in PanicValues \cup {NoPanic}}

HandlerResponse(h) ==
  IF h.writes THEN WriteHeader(NewRecorder, StatusOK) ELSE NewRecorder

DefaultRecoveryMiddlewareOptions == [ErrorResponse |-> PanicRecoveryResponse]

\* the opts argument of NewPanicRecoveryMiddleware: nil or a struct
RecoveryOptionsInputs ==
  {[isNil |-> TRUE, ErrorResponse |-> NoRenderer]}
  \cup {[isNil |-> FALSE, ErrorResponse |-> e] :
          e \in {NoRenderer, PanicRecoveryResponse, AccessDeniedResponse,
                 FailingRenderer}}

\* if rvr != nil && rvr != http.ErrAbortHandler
Recovers(rvr) == rvr # NoPanic /\ rvr # ErrAbortHandler

NewPanicRecoveryMiddleware(o) ==
  [nilOpts |-> o.isNil,
   opts |-> IF o.isNil THEN DefaultRecoveryMiddlewareOptions
            ELSE [ErrorResponse |-> o.ErrorResponse],
   served |-> 0, handler |-> [writes |-> FALSE, panic |-> NoPanic],
   handlerCalled |-> FALSE, rendered |-> FALSE, panicked |-> FALSE,
   rr |-> NewRecorder]

RecoveryInit ==
  /\ \E o \in RecoveryOptionsInputs : recovery = NewPanicRecoveryMiddleware(o)
  /\ auth = NotConstructed
  /\ cors = NotConstructed
  /\ mock = NotConstructed
  /\ rid = NotConstructed
  /\ NoCircuitBreaker

\* middleware(next).ServeHTTP(rr, req) with a fresh recorder: next runs as h
\* says, then the deferred function; panicked tells whether a panic leaves
\* ServeHTTP: the one of render.Render on a nil Renderer, or panic(err)
RecoveryServeHTTP(h) ==
  /\ recovery.served < MaxServed
  /\ LET e == recovery.opts.ErrorResponse IN
     recovery' = [recovery EXCEPT
                    !.served = @ + 1,
                    !.handler = h,
                    !.handlerCalled = TRUE,
                    !.rendered = /\ Recovers(h.panic)
                                 /\ ~RenderPanics(e) /\ ~RenderFails(e),
                    !.panicked = /\ Recovers(h.panic)
                                 /\ RenderPanics(e) \/ RenderFails(e),
                    !.rr = IF Recovers(h.panic)
                           THEN Render(HandlerResponse(h), e)
                           ELSE HandlerResponse(h)]
  /\ UNCHANGED <<cbVars, auth, cors, mock, rid>>

RecoveryNext == \E h \in HandlerInputs : RecoveryServeHTTP(h)

RecoverySpec == RecoveryInit /\ [][RecoveryNext]_vars

\* C16: whatever the options and whatever the wrapped handler panics with,
\* ServeHTTP returns normally (no panic reaches the caller); the configured
\* ErrorResponse (500 by default) is rendered iff the handler panicked with
\* a value other than http.ErrAbortHandler; for http.ErrAbortHandler nothing
\* is written, and without a panic the handler's response is left as it is.
C16_PanicRecovered ==
  recovery.served > 0 =>
    LET h == recovery.handler
        e == recovery.opts.ErrorResponse IN
    /\ ~recovery.panicked
    /\ recovery.rendered <=> (h.panic # NoPanic /\ h.panic # ErrAbortHandler)
    /\ recovery.rendered =>
         /\ recovery.rr.wroteHeader
         /\ recovery.rr.Body = <<e.Message>>
         /\ ~h.writes => recovery.rr.Code = e.HTTPStatusCode
         /\ (recovery.nilOpts /\ ~h.writes) => recovery.rr.Code = StatusServerError
    /\ ~recovery.rendered => recovery.rr = HandlerResponse(h)
    /\ (h.panic = ErrAbortHandler /\ ~h.writes) => recovery.rr = NewRecorder

\* =========================================================================
\* MockInteractionTransport (package testutils)
\* =========================================================================
MaxExpectations == 2     \* ExpectRequest calls between two Resets
MaxRoundTrips == 3       \* RoundTrip calls between two Resets

Exact == "Exact"
FirstMatch == "FirstMatch"
UnknownAlgorithm == "MatchingAlgorithm(2)"

\* a URL string by its parts; the empty string has all parts empty
URL(base, query, fragment) == [base |-> base, query |-> query, fragment |-> fragment]
NoURL == URL("", "", "")

\* extractBaseURL: url.Parse, RawQuery = "", Fragment = "", String()
extractBaseURL(u) == [u EXCEPT !.query = "", !.fragment = ""]

\* the requests sent through the transport: req.Method and req.URL.String()
MockRequests ==
  {[Method |-> "GET", URL |-> URL("https://api.localhost/users", "", "")],
   [Method |-> "GET", URL |-> URL("https://api.localhost/users", "page=1", "top")],
   [Method |-> "POST", URL |-> URL("https://api.localhost/users", "", "")],
   [Method |-> "GET", URL |-> URL("https://api.localhost/posts", "", "")]}

\* the TestRequest values handed to ExpectRequest
TestRequests ==
  {[Method |-> "", URL |-> NoURL],
   [Method |-> "GET", URL |-> URL("https://api.localhost/users", "", "")],
   [Method |-> "", URL |-> URL("https://api.localhost/users", "page=2", "")],
   [Method |-> "GET", URL |-> URL("https://api.localhost/posts", "", "")]}

\* a nil *TestResponse and the response of the tests
NoTestResponse == [isNil |-> TRUE, Status |-> "", Body |-> ""]
TestResponses == {[isNil |-> FALSE, Status |-> StatusOK, Body |-> "users"]}

\* what RoundTrip returns: (nil, nil) or the *http.Response built from the
\* expectation's response
NoHTTPResponse == [isNil |-> TRUE, StatusCode |-> "", Body |-> ""]
HTTPResponse(r) ==
  IF r.isNil THEN NoHTTPResponse
  ELSE [isNil |-> FALSE, StatusCode |-> r.Status, Body |-> r.Body]

\* ExpectedInteraction.matches
matches(e, req) ==
  /\ ~(e.request.Method # "" /\ e.request.Method # req.Method)
  /\ e.request.URL # NoURL =>
       LET expectedURL == IF e.ignoreQueryParams
                          THEN extractBaseURL(e.request.URL) ELSE e.request.URL
           actualURL == IF e.ignoreQueryParams
                        THEN extractBaseURL(req.URL) ELSE req.URL IN
       expectedURL = actualURL

\* no expectation selected
NoInteraction == [id |-> 0, request |-> [Method |-> "", URL |-> NoURL],
                  response |-> NoTestResponse, ignoreQueryParams |-> FALSE]

\* selectExact that takes the expectation registered last
selectExact_TakesLast(list) ==
  IF Len(list) = 0 THEN [next |-> NoInteraction, rest |-> list]
  ELSE [next |-> list[Len(list)], rest |-> SubSeq(list, 1, Len(list) - 1)]

\* selectExact: the first expectation, removed from the list
selectExact(list) ==
  IF Len(list) = 0 THEN [next |-> NoInteraction, rest |-> list]
  ELSE [next |-> list[1], rest |-> Tail(list)]

\* selectFirstMatch that removes the expectation it returns
selectFirstMatch_Consumes(list, req) ==
  LET hits == {i \in 1..Len(list) : matches(list[i], req)} IN
  IF hits = {} THEN [next |-> NoInteraction, rest |-> list]
  ELSE LET i == CHOOSE j \in hits : \A k \in hits : j <= k IN
       [next |-> list[i],
        rest |-> SubSeq(list, 1, i - 1) \o SubSeq(list, i + 1, Len(list))]

\* selectFirstMatch: the first expectation in list order that matches; the
\* list stays as it is
RECURSIVE FirstMatching(_, _)
FirstMatching(list, req) ==
  IF list = <<>> THEN NoInteraction
  ELSE IF matches(Head(list), req) THEN Head(list)
       ELSE FirstMatching(Tail(list), req)

selectFirstMatch(list, req) ==
  [next |-> FirstMatching(list, req), rest |-> list]

DefaultMockInteractionTransportOptions == [Algorithm |-> Exact]

\* the opts argument of NewMockInteractionTransport: nil or a struct
MockOptionsInputs ==
  {[isNil |-> TRUE, Algorithm |-> Exact]}
  \cup {[isNil |-> FALSE, Algorithm |-> a] : a \in {Exact, FirstMatch, UnknownAlgorithm}}

\* NewMockInteractionTransport.  registered and roundTrips count the calls
\* since the last Reset; an expectation's id is its registration number;
\* last is the expectation the latest ExpectRequest returned; repeats counts
\* the RoundTrips in a row that sent the request req; failed is t.Failed(),
\* after which the test goroutine is gone (t.FailNow)
NewMockInteractionTransport(o) ==
  [opts |-> IF o.isNil THEN DefaultMockInteractionTransportOptions
            ELSE [Algorithm |-> o.Algorithm],
   expectedInteractions |-> <<>>,
   registered |-> 0, roundTrips |-> 0, last |-> 0,
   req |-> [Method |-> "", URL |-> NoURL], repeats |-> 0,
   answered |-> 0, ret |-> NoHTTPResponse, failed |-> FALSE]

MockInit ==
  /\ \E o \in MockOptionsInputs : mock = NewMockInteractionTransport(o)
  /\ auth = NotConstructed
  /\ cors = NotConstructed
  /\ recovery = NotConstructed
  /\ rid = NotConstructed
  /\ NoCircuitBreaker

\* ExpectRequest(req): a new expectation at the end of the list
ExpectRequest(req) ==
  /\ ~mock.failed
  /\ mock.registered < MaxExpectations
  /\ mock' = [mock EXCEPT
                !.expectedInteractions =
                   Append(@, [id |-> mock.registered + 1, request |-> req,
                              response |-> NoTestResponse,
                              ignoreQueryParams |-> FALSE]),
                !.registered = @ + 1,
                !.last = mock.registered + 1]
  /\ UNCHANGED <<cbVars, auth, cors, recovery, rid>>

\* the position in the list of the expectation ExpectRequest returned last
LastPosition ==
  {i \in 1..Len(mock.expectedInteractions) :
     mock.expectedInteractions[i].id = mock.last}

\* e.WillReturnResponse(response) on the expectation returned last
WillReturnResponse(r) ==
  /\ ~mock.failed
  /\ \E i \in LastPosition :
       mock' = [mock EXCEPT !.expectedInteractions[i].response = r]
  /\ UNCHANGED <<cbVars, auth, cors, recovery, rid>>

\* e.IgnoreQueryParams(ignore) on the expectation returned last
IgnoreQueryParams(ignore) ==
  /\ ~mock.failed
  /\ \E i \in LastPosition :
       mock' = [mock EXCEPT !.expectedInteractions[i].ignoreQueryParams = ignore]
  /\ UNCHANGED <<cbVars, auth, cors, recovery, rid>>

\* the require.Equal checks of RoundTrip on the selected expectation
Validates(e, req) ==
  /\ e.request.Method # "" => e.request.Method = req.Method
  /\ e.request.URL # NoURL =>
       IF e.ignoreQueryParams
       THEN extractBaseURL(e.request.URL) = extractBaseURL(req.URL)
       ELSE e.request.URL = req.URL

\* RoundTrip(req): select under the lock, then check and answer
RoundTrip(req) ==
  /\ ~mock.failed
  /\ mock.roundTrips < MaxRoundTrips
  /\ LET known == mock.opts.Algorithm \in {Exact, FirstMatch}
         sel == CASE mock.opts.Algorithm = Exact ->
                       selectExact(mock.expectedInteractions)
                  [] mock.opts.Algorithm = FirstMatch ->
                       selectFirstMatch(mock.expectedInteractions, req)
                  [] OTHER ->
                       [next |-> NoInteraction, rest |-> mock.expectedInteractions]
         found == known /\ sel.next # NoInteraction
         ok == found /\ Validates(sel.next, req) IN
     mock' = [mock EXCEPT
                !.expectedInteractions = sel.rest,
                !.roundTrips = @ + 1,
                !.req = req,
                !.repeats = IF req = mock.req THEN @ + 1 ELSE 1,
                !.answered = sel.next.id,
                !.failed = ~ok,
                !.ret = IF ok THEN HTTPResponse(sel.next.response)
                        ELSE NoHTTPResponse]
  /\ UNCHANGED <<cbVars, auth, cors, recovery, rid>>

\* Reset(): an empty list
Reset ==
  /\ ~mock.failed
  /\ mock' = [mock EXCEPT !.expectedInteractions = <<>>,
                          !.registered = 0, !.roundTrips = 0, !.last = 0,
                          !.repeats = 0]
  /\ UNCHANGED <<cbVars, auth, cors, recovery, rid>>

MockNext ==
  \/ \E req \in TestRequests : ExpectRequest(req)
  \/ \E r \in TestResponses : WillReturnResponse(r)
  \/ \E ignore \in BOOLEAN : IgnoreQueryParams(ignore)
  \/ \E req \in MockRequests : RoundTrip(req)
  \/ Reset

MockSpec == MockInit /\ [][MockNext]_vars

\* a step that is a RoundTrip call, an ExpectRequest call, a Reset call
IsRoundTrip == mock'.roundTrips = mock.roundTrips + 1
IsExpectRequest == mock'.registered = mock.registered + 1

\* an expectation and a request agree, as the claims word it: the methods
\* are equal or the expectation names none; the URLs are equal or the
\* expectation names none, both taken without query and fragment when the
\* expectation ignores query parameters
ExpectationFits(e, req) ==
  /\ e.request.Method = req.Method \/ e.request.Method = ""
  /\ \/ e.request.URL = NoURL
     \/ IF e.ignoreQueryParams THEN e.request.URL.base = req.URL.base
        ELSE e.request.URL = req.URL

\* C17: with the Exact algorithm the k-th RoundTrip since the last Reset
\* takes the k-th expectation registered since then and removes it, so that
\* after n ExpectRequest and k <= n RoundTrip calls the expectations k+1..n
\* remain in registration order; Reset leaves none.
C17_ExactFIFO ==
  /\ [](mock.opts.Algorithm = Exact /\ mock.roundTrips <= mock.registered =>
          /\ Len(mock.expectedInteractions) = mock.registered - mock.roundTrips
          /\ \A i \in 1..Len(mock.expectedInteractions) :
               mock.expectedInteractions[i].id = mock.roundTrips + i)
  /\ [][(IsRoundTrip /\ mock.opts.Algorithm = Exact
           /\ mock.roundTrips < mock.registered) =>
          /\ mock'.answered = mock'.roundTrips
          /\ mock'.expectedInteractions = Tail(mock.expectedInteractions)
          /\ mock'.failed <=> ~ExpectationFits(mock.expectedInteractions[1], mock'.req)
          /\ ~mock'.failed =>
               mock'.ret = HTTPResponse(mock.expectedInteractions[1].response)]_vars

\* two expectations registered, the first RoundTrip answered by the first,
\* the second expectation left
C17_Witness ==
  /\ mock.opts.Algorithm = Exact
  /\ mock.registered = 2
  /\ mock.roundTrips = 1
  /\ ~mock.failed
  /\ mock.answered = 1
  /\ ~mock.ret.isNil
  /\ Len(mock.expectedInteractions) = 1
  /\ mock.expectedInteractions[1].id = 2

\* C18: with the FirstMatch algorithm a RoundTrip leaves the expectations
\* as they are and is answered by the earliest registered expectation that
\* fits the request.
C18_FirstMatchKeeps ==
  [][(IsRoundTrip /\ mock.opts.Algorithm = FirstMatch) =>
       LET list == mock.expectedInteractions
           hits == {i \in 1..Len(list) : ExpectationFits(list[i], mock'.req)} IN
       /\ mock'.expectedInteractions = list
       /\ mock'.failed <=> hits = {}
       /\ \A i \in hits :
            (\A j \in hits : i <= j) =>
              /\ mock'.answered = list[i].id
              /\ mock'.ret = HTTPResponse(list[i].response)]_vars

\* three identical requests in a row, each answered by the second
\* expectation, the first not fitting
C18_Witness ==
  /\ mock.opts.Algorithm = FirstMatch
  /\ mock.repeats = 3
  /\ ~mock.failed
  /\ Len(mock.expectedInteractions) = 2
  /\ ~ExpectationFits(mock.expectedInteractions[1], mock.req)
  /\ mock.answered = 2
  /\ ~mock.ret.isNil

\* =========================================================================
\* MockInteractionTransport called from several goroutines (MockConcSpec)
\*
\* MockSpec runs the calls of one test goroutine one after the other.  Here
\* the calls come from NumGoroutines goroutines and every call is taken
\* apart at its lock: Lock, the read and the write of selectExact, the
\* checks, and the response and return with the deferred Unlock.  An
\* expectation is one object behind a pointer: the list, the next of a
\* RoundTrip and the caller of ExpectRequest hold the same one, and
\* WillReturnResponse and IgnoreQueryParams write it without the lock, so
\* they change every place that holds it.  mock is the record
\*   opts, expectedInteractions : the fields of the transport
\*   m          : the goroutine holding c.m, 0 when the lock is free
\*   go         : each goroutine's place in its call, its req, its next and
\*                what its last RoundTrip returned (next is kept after
\*                RoundTrip returns, what it was given, until a Reset)
\*   registered : ExpectRequest calls since the last Reset
\*   roundTrips : RoundTrip calls begun since the last Reset
\*   answered   : RoundTrip calls that returned since the last Reset
\*   refused    : RoundTrip calls that took an expectation and failed the
\*                test on it (require.Equal, then t.FailNow) since then
\*   taken      : for each expectation, the RoundTrips that removed it
\* A goroutine whose call failed the test is gone (runtime.Goexit, the
\* deferred Unlock runs); its place is taken by a new goroutine.
\* =========================================================================
NumGoroutines == 2

Goroutines == 1..NumGoroutines

IdleGoroutine ==
  [pc |-> "idle", req |-> [Method |-> "", URL |-> NoURL], next |-> NoInteraction,
   ret |-> NoHTTPResponse]

\* NewMockInteractionTransport, seen from several goroutines
NewSharedMockInteractionTransport(o) ==
  [opts |-> NewMockInteractionTransport(o).opts,
   expectedInteractions |-> <<>>,
   m |-> 0,
   go |-> [g \in Goroutines |-> IdleGoroutine],
   registered |-> 0, roundTrips |-> 0, answered |-> 0, refused |-> 0,
   taken |-> [i \in 1..MaxExpectations |-> 0]]

MockConcInit ==
  /\ \E o \in {i \in MockOptionsInputs : i.Algorithm = Exact} :
       mock = NewSharedMockInteractionTransport(o)
  /\ auth = NotConstructed
  /\ cors = NotConstructed
  /\ recovery = NotConstructed
  /\ rid = NotConstructed
  /\ NoCircuitBreaker

\* a RoundTrip that goes on without taking the lock
RoundTripLock_NoLock(g, req) ==
  /\ mock.go[g].pc = "idle"
  /\ mock.roundTrips < MaxRoundTrips
  /\ mock' = [mock EXCEPT !.go[g].pc = "RoundTrip locked",
                          !.go[g].req = req,
                          !.go[g].next = NoInteraction,
                          !.roundTrips = @ + 1]
  /\ UNCHANGED <<cbVars, auth, cors, recovery, rid>>

\* RoundTrip(req), case Exact: c.m.Lock(); defer c.m.Unlock()
RoundTripLock(g, req) ==
  /\ mock.go[g].pc = "idle"
  /\ mock.m = 0
  /\ mock.roundTrips < MaxRoundTrips
  /\ mock' = [mock EXCEPT !.m = g,
                          !.go[g].pc = "RoundTrip locked",
                          !.go[g].req = req,
                          !.go[g].next = NoInteraction,
                          !.roundTrips = @ + 1]
  /\ UNCHANGED <<cbVars, auth, cors, recovery, rid>>

\* selectExact: len(c.expectedInteractions) == 0, i := c.expectedInteractions[0]
SelectExactRead(g) ==
  /\ mock.go[g].pc = "RoundTrip locked"
  /\ mock' = [mock EXCEPT
                !.go[g].pc = IF Len(mock.expectedInteractions) = 0
                             THEN "RoundTrip selected" ELSE "selectExact read",
                !.go[g].next = selectExact(mock.expectedInteractions).next]
  /\ UNCHANGED <<cbVars, auth, cors, recovery, rid>>

\* selectExact: c.expectedInteractions = c.expectedInteractions[1:]
SelectExactWrite(g) ==
  /\ mock.go[g].pc = "selectExact read"
  /\ mock' = [mock EXCEPT
                !.go[g].pc = "RoundTrip selected",
                !.expectedInteractions = selectExact(@).rest,
                !.taken[mock.go[g].next.id] = @ + 1]
  /\ UNCHANGED <<cbVars, auth, cors, recovery, rid>>

\* RoundTrip after the selection: require.NotNil and the require.Equal
\* checks, which read next.ignoreQueryParams; a failed check is t.FailNow
\* and the deferred Unlock runs
RoundTripCheck(g) ==
  /\ mock.go[g].pc = "RoundTrip selected"
  /\ LET next == mock.go[g].next
         found == next # NoInteraction
         ok == found /\ Validates(next, mock.go[g].req) IN
     mock' = [mock EXCEPT
                !.m = IF ~ok /\ @ = g THEN 0 ELSE @,
                !.go[g].pc = IF ok THEN "RoundTrip checked" ELSE "idle",
                !.go[g].req = IF ok THEN @ ELSE IdleGoroutine.req,
                !.go[g].ret = NoHTTPResponse,
                !.refused = IF found /\ ~ok THEN @ + 1 ELSE @]
  /\ UNCHANGED <<cbVars, auth, cors, recovery, rid>>

\* the rest of RoundTrip: next.response is read and the response built from
\* it (nil, nil without one); the deferred Unlock runs on return
RoundTripReturn(g) ==
  /\ mock.go[g].pc = "RoundTrip checked"
  /\ mock' = [mock EXCEPT
                !.m = IF @ = g THEN 0 ELSE @,
                !.go[g].pc = "idle",
                !.go[g].req = IdleGoroutine.req,
                !.go[g].ret = HTTPResponse(mock.go[g].next.response),
                !.answered = @ + 1]
  /\ UNCHANGED <<cbVars, auth, cors, recovery, rid>>

\* e.WillReturnResponse(response) on the expectation registered as number
\* i, by whoever holds the pointer: r.response = response, no lock taken
SharedWillReturnResponse(i, r) ==
  /\ i \in 1..mock.registered
  /\ mock' = [mock EXCEPT
                !.expectedInteractions =
                   [j \in DOMAIN @ |-> IF @[j].id = i
                                       THEN [@[j] EXCEPT !.response = r] ELSE @[j]],
                !.go = [g \in Goroutines |->
                          IF @[g].next.id = i
                          THEN [@[g] EXCEPT !.next.response = r] ELSE @[g]]]
  /\ UNCHANGED <<cbVars, auth, cors, recovery, rid>>

\* e.IgnoreQueryParams(ignore) on the expectation registered as number i:
\* r.ignoreQueryParams = ignore, no lock taken
SharedIgnoreQueryParams(i, ignore) ==
  /\ i \in 1..mock.registered
  /\ mock' = [mock EXCEPT
                !.expectedInteractions =
                   [j \in DOMAIN @ |-> IF @[j].id = i
                                       THEN [@[j] EXCEPT !.ignoreQueryParams = ignore]
                                       ELSE @[j]],
                !.go = [g \in Goroutines |->
                          IF @[g].next.id = i
                          THEN [@[g] EXCEPT !.next.ignoreQueryParams = ignore]
                          ELSE @[g]]]
  /\ UNCHANGED <<cbVars, auth, cors, recovery, rid>>

\* ExpectRequest(req): c.m.Lock(); defer c.m.Unlock()
ExpectRequestLock(g, req) ==
  /\ mock.go[g].pc = "idle"
  /\ mock.m = 0
  /\ mock.registered < MaxExpectations
  /\ mock' = [mock EXCEPT !.m = g,
                          !.go[g].pc = "ExpectRequest locked",
                          !.go[g].req = req,
                          !.go[g].next = NoInteraction]
  /\ UNCHANGED <<cbVars, auth, cors, recovery, rid>>

\* ExpectRequest: the append, the return and the deferred Unlock
ExpectRequestAppend(g) ==
  /\ mock.go[g].pc = "ExpectRequest locked"
  /\ mock' = [mock EXCEPT
                !.m = 0,
                !.go[g] = IdleGoroutine,
                !.expectedInteractions =
                   Append(@, [id |-> mock.registered + 1,
                              request |-> mock.go[g].req,
                              response |-> NoTestResponse,
                              ignoreQueryParams |-> FALSE]),
                !.registered = @ + 1]
  /\ UNCHANGED <<cbVars, auth, cors, recovery, rid>>

\* Reset(): c.m.Lock(); defer c.m.Unlock()
ResetLock(g) ==
  /\ mock.go[g].pc = "idle"
  /\ mock.m = 0
  /\ mock' = [mock EXCEPT !.m = g, !.go[g].pc = "Reset locked",
                          !.go[g].next = NoInteraction]
  /\ UNCHANGED <<cbVars, auth, cors, recovery, rid>>

\* Reset: the new empty list, the return and the deferred Unlock; the
\* expectations handed out before are forgotten
ResetClear(g) ==
  /\ mock.go[g].pc = "Reset locked"
  /\ mock' = [mock EXCEPT
                !.m = 0,
                !.go = [h \in Goroutines |->
                          IF h = g THEN [@[h] EXCEPT !.pc = "idle"]
                          ELSE IF @[h].pc = "idle"
                               THEN [@[h] EXCEPT !.next = NoInteraction]
                               ELSE @[h]],
                !.expectedInteractions = <<>>,
                !.registered = 0, !.roundTrips = 0, !.answered = 0,
                !.refused = 0,
                !.taken = [i \in 1..MaxExpectations |-> 0]]
  /\ UNCHANGED <<cbVars, auth, cors, recovery, rid>>

MockConcNext ==
  \/ \E g \in Goroutines, req \in MockRequests : RoundTripLock(g, req)
  \/ \E g \in Goroutines : SelectExactRead(g)
  \/ \E g \in Goroutines : SelectExactWrite(g)
  \/ \E g \in Goroutines : RoundTripCheck(g)
  \/ \E g \in Goroutines : RoundTripReturn(g)
  \/ \E i \in 1..MaxExpectations, r \in TestResponses :
       SharedWillReturnResponse(i, r)
  \/ \E i \in 1..MaxExpectations, ignore \in BOOLEAN :
       SharedIgnoreQueryParams(i, ignore)
  \/ \E g \in Goroutines, req \in TestRequests : ExpectRequestLock(g, req)
  \/ \E g \in Goroutines : ExpectRequestAppend(g)
  \/ \E g \in Goroutines : ResetLock(g)
  \/ \E g \in Goroutines : ResetClear(g)

MockConcSpec == MockConcInit /\ [][MockConcNext]_vars

\* the expectations registered since the last Reset that are in the list
Remaining == {mock.expectedInteractions[j].id :
                j \in 1..Len(mock.expectedInteractions)}

\* C30 as stated: between calls the number of expectations in the list is
\* the number registered since the last Reset minus the number of
\* RoundTrips answered since then.
C30_RemainingIsRegisteredMinusAnswered ==
  mock.m = 0 =>
    Len(mock.expectedInteractions) = mock.registered - mock.answered

\* C30 (amended): whatever the interleaving of RoundTrip, ExpectRequest and
\* Reset calls on several goroutines, no expectation is removed by more than
\* one RoundTrip and none is lost: each expectation registered since the
\* last Reset is either in the list, once, or was removed by exactly one
\* RoundTrip; between calls the number in the list is the number registered
\* minus the RoundTrips that removed one, those answered and those that
\* failed the test on the expectation they removed.
C30_NoneTakenTwiceNoneLost ==
  /\ \A i \in 1..MaxExpectations : mock.taken[i] <= 1
  /\ \A i \in 1..mock.registered : (mock.taken[i] = 1) # (i \in Remaining)
  /\ Remaining \subseteq 1..mock.registered
  /\ Cardinality(Remaining) = Len(mock.expectedInteractions)
  /\ mock.m = 0 =>
       Len(mock.expectedInteractions)
         = mock.registered - mock.answered - mock.refused

\* two expectations registered; each goroutine's RoundTrip was given one of
\* them and answered, and none is left
C30_Witness ==
  /\ mock.m = 0
  /\ mock.registered = 2
  /\ mock.answered = 2
  /\ mock.refused = 0
  /\ mock.expectedInteractions = <<>>
  /\ \E g, h \in Goroutines :
       /\ mock.go[g].pc = "idle" /\ mock.go[g].next.id = 1
       /\ mock.go[h].pc = "idle" /\ mock.go[h].next.id = 2

\* =========================================================================
\* Request-ID middleware (package tracing): NewRequestIDHeaderMiddleware
\* =========================================================================
XRequestID == "X-Request-ID"
XCorrelationID == "X-Correlation-ID"

\* textproto.CanonicalMIMEHeaderKey on the header names in use
CanonicalMIMEHeaderKey(name) ==
  CASE name = "X-Request-ID" -> "X-Request-Id"
    [] name = "X-Correlation-ID" -> "X-Correlation-Id"
    [] OTHER -> name

CanonicalKeys == {"X-Request-Id", "X-Correlation-Id"}

\* http.Header: the values under each canonical key, none when it is absent
NoHeader == [k \in CanonicalKeys |-> <<>>]

\* Header.Get: the first value under the canonical key, "" when there is none
HeaderGet(h, name) ==
  LET k == CanonicalMIMEHeaderKey(name) IN
  IF k \in DOMAIN h /\ h[k] # <<>> THEN h[k][1] ELSE ""

\* Header.Set: the one value under the canonical key
HeaderSet(h, name, v) ==
  [h EXCEPT ![CanonicalMIMEHeaderKey(name)] = <<v>>]

\* the headers of the incoming requests
RequestHeaderInputs ==
  {NoHeader,
   HeaderSet(NoHeader, XRequestID, "existing-request-id"),
   HeaderSet(NoHeader, XRequestID, ""),
   [NoHeader EXCEPT !["X-Request-Id"] = <<"", "second-value">>],
   HeaderSet(NoHeader, XCorrelationID, "correlation-id")}

\* a context by the value it holds under the RequestID type, if any
EmptyContext == [RequestID |-> Absent]
ContextInputs == {EmptyContext, [RequestID |-> "outer-request-id"]}

ContextWithRequestID(ctx, requestID) == [ctx EXCEPT !.RequestID = requestID]

\* RequestIDFromContext: a pointer to the value, nil (Absent) without one
RequestIDFromContext(ctx) == ctx.RequestID

\* the generator functions: the default one (a random UUID, two of them
\* here), one that returns a fixed string, one that returns "", and nil
NoGenerator == "nil"
GeneratorFnInputs ==
  {"DefaultRequestIDGenerator", "fixed generator", "empty generator", NoGenerator}

\* the strings a call of the generator can return
GeneratorFn(fn) ==
  CASE fn = "DefaultRequestIDGenerator" ->
         {"6f1c2a9e-0b7d-4c3a-9e21-5d8f0a1b2c3d", "a3b8d1b6-0b3b-4b1a-9c1a-1a2b3c4d5e6f"}
    [] fn = "fixed generator" -> {"generated-request-id"}
    [] fn = "empty generator" -> {""}
    [] OTHER -> {}

DefaultRequestIDHeaderMiddlewareOptions ==
  [HeaderName |-> XRequestID, GeneratorFn |-> "DefaultRequestIDGenerator"]

\* the opts argument of NewRequestIDHeaderMiddleware: nil or a struct
RequestIDOptionsInputs ==
  {[isNil |-> TRUE, HeaderName |-> "", GeneratorFn |-> NoGenerator]}
  \cup {[isNil |-> FALSE, HeaderName |-> n, GeneratorFn |-> g] :
          n \in {XRequestID, XCorrelationID}, g \in GeneratorFnInputs}

NewRequestIDHeaderMiddleware(o) ==
  [nilOpts |-> o.isNil,
   opts |-> IF o.isNil THEN DefaultRequestIDHeaderMiddlewareOptions
            ELSE [HeaderName |-> o.HeaderName, GeneratorFn |-> o.GeneratorFn],
   served |-> 0, reqHeader |-> NoHeader, reqContext |-> EmptyContext,
   generatorCalls |-> 0, generated |-> "",
   Header |-> NoHeader, nextContext |-> EmptyContext,
   handlerCalled |-> FALSE, panicked |-> FALSE]

RequestIDInit ==
  /\ \E o \in RequestIDOptionsInputs : rid = NewRequestIDHeaderMiddleware(o)
  /\ auth = NotConstructed
  /\ cors = NotConstructed
  /\ recovery = NotConstructed
  /\ mock = NotConstructed
  /\ NoCircuitBreaker

\* requestID := req.Header.Get(...); if requestID == "" { requestID = GeneratorFn() }
RequestID(incoming, generated) == IF incoming = "" THEN generated ELSE incoming

\* middleware(next).ServeHTTP(rr, req) with a fresh recorder, where the
\* generator returns g if it is called
RequestIDServe(h, ctx, g) ==
  LET incoming == HeaderGet(h, rid.opts.HeaderName)
      requestID == RequestID(incoming, g) IN
  rid' = [rid EXCEPT
            !.served = @ + 1,
            !.reqHeader = h,
            !.reqContext = ctx,
            !.generatorCalls = IF incoming = "" THEN 1 ELSE 0,
            !.generated = IF incoming = "" THEN g ELSE "",
            !.Header = HeaderSet(NoHeader, rid.opts.HeaderName, requestID),
            !.nextContext = ContextWithRequestID(ctx, requestID),
            !.handlerCalled = TRUE,
            !.panicked = FALSE]

\* calling a nil GeneratorFn panics before anything is set or called
RequestIDPanic(h, ctx) ==
  rid' = [rid EXCEPT
            !.served = @ + 1,
            !.reqHeader = h,
            !.reqContext = ctx,
            !.generatorCalls = 0,
            !.generated = "",
            !.Header = NoHeader,
            !.nextContext = EmptyContext,
            !.handlerCalled = FALSE,
            !.panicked = TRUE]

RequestIDServeHTTP(h, ctx) ==
  /\ rid.served < MaxServed
  /\ IF HeaderGet(h, rid.opts.HeaderName) = "" /\ rid.opts.GeneratorFn = NoGenerator
     THEN RequestIDPanic(h, ctx)
     ELSE IF HeaderGet(h, rid.opts.HeaderName) = ""
          THEN \E g \in GeneratorFn(rid.opts.GeneratorFn) : RequestIDServe(h, ctx, g)
          ELSE RequestIDServe(h, ctx, "")
  /\ UNCHANGED <<cbVars, auth, cors, recovery, mock>>

RequestIDNext ==
  \E h \in RequestHeaderInputs, ctx \in ContextInputs : RequestIDServeHTTP(h, ctx)

RequestIDSpec == RequestIDInit /\ [][RequestIDNext]_vars

\* the first value of the request's header of the configured name
IncomingRequestID ==
  LET k == CanonicalMIMEHeaderKey(rid.opts.HeaderName) IN
  IF rid.reqHeader[k] = <<>> THEN "" ELSE Head(rid.reqHeader[k])

\* C19: for every options value and every request, the request-ID header of
\* the response and the request ID in the context handed to the next handler
\* are the same value: the incoming header value when it is not empty,
\* otherwise what one GeneratorFn call returned; the next handler is always
\* invoked.
C19_SameRequestID ==
  rid.served > 0 =>
    /\ rid.handlerCalled
    /\ ~rid.panicked
    /\ rid.Header[CanonicalMIMEHeaderKey(rid.opts.HeaderName)]
         = <<RequestIDFromContext(rid.nextContext)>>
    /\ IncomingRequestID # "" =>
         /\ RequestIDFromContext(rid.nextContext) = IncomingRequestID
         /\ rid.generatorCalls = 0
    /\ IncomingRequestID = "" =>
         /\ rid.generatorCalls = 1
         /\ RequestIDFromContext(rid.nextContext) = rid.generated
         /\ rid.generated \in GeneratorFn(rid.opts.GeneratorFn)

====
